---- MODULE Spec2Model ----
(***************************************************************************)
(* Keybox: the encryption envelope (keybox/envelope.py), the record table  *)
(* (keybox/keybox.py, keybox/fileformat.py, keys/record.py) and the        *)
(* tmp-file write lease of the UI (keybox/ui.py).                          *)
(*                                                                         *)
(* Representation.  A Python str or bytes value is a sequence of symbols.  *)
(* A symbol is a tuple: <<c>> for the character c, <<"b64", key, nonce,    *)
(* pt>> for the Base64 text of one SecretBox ciphertext (it contains no    *)
(* tab, LF or backslash), <<n, s>> for a run of a deflate stream.          *)
(* Cryptography is ideal: the KDF is injective in all its inputs and a     *)
(* ciphertext opens only under the key that made it.                       *)
(***************************************************************************)
EXTENDS Integers, Sequences, FiniteSets, TLC

(***************************************************************************)
(* Bounds of the model                                                     *)
(***************************************************************************)
\* number of distinct random salts / nonces the CSPRNG can return
NRand == 2
\* longest payload handed to DataSafe.write_data
MaxLen == 2
\* most records a Keybox holds, most calls made on it, latest clock reading
MaxRecords == 2
MaxSteps == 4
MaxClock == 1
MaxImportSteps == 2
\* processes that use one keybox file, and runs of the program among them
NProcs == 2
MaxOpens == 3
MaxRows == 3
MaxRowSteps == 2
MaxTagLen == 2
MaxBufs == 4

(***************************************************************************)
(* Characters and strings                                                  *)
(***************************************************************************)
TAB == <<"TAB">>
LF == <<"LF">>
BSL == <<"BSL">>

Range(s) == {s[i] : i \in 1..Len(s)}

\* ord(c) of the characters the model uses
CharCode(c) ==
    CASE c = "TAB" -> 9
      [] c = "LF" -> 10
      [] c = " " -> 32
      [] c = "0" -> 48
      [] c = "1" -> 49
      [] c = "2" -> 50
      [] c = "9" -> 57
      [] c = "A" -> 65
      [] c = "BSL" -> 92
      [] c = "a" -> 97
      [] c = "b" -> 98
      [] c = "n" -> 110
      [] c = "t" -> 116
      [] OTHER -> 63

\* sum and concatenation of the elements of a sequence (by halves)
RECURSIVE SumSeq(_)
SumSeq(s) ==
    IF s = <<>> THEN 0
    ELSE IF Len(s) = 1 THEN s[1]
    ELSE LET h == Len(s) \div 2
         IN  SumSeq(SubSeq(s, 1, h)) + SumSeq(SubSeq(s, h + 1, Len(s)))

RECURSIVE Flatten(_)
Flatten(ss) ==
    IF ss = <<>> THEN <<>>
    ELSE IF Len(ss) = 1 THEN ss[1]
    ELSE LET h == Len(ss) \div 2
         IN  Flatten(SubSeq(ss, 1, h)) \o Flatten(SubSeq(ss, h + 1, Len(ss)))

(***************************************************************************)
(* struct.pack / struct.unpack of little-endian unsigned integers          *)
(***************************************************************************)
RECURSIVE PackLE(_, _)
PackLE(n, width) ==
    IF width = 0 THEN <<>> ELSE <<n % 256>> \o PackLE(n \div 256, width - 1)

RECURSIVE UnpackLE(_)
UnpackLE(v) == IF v = <<>> THEN 0 ELSE v[1] + 256 * UnpackLE(Tail(v))

\* an unpack_uint that takes a value of any length
unpack_uint_anylen(v) == UnpackLE(v)

\* read_header.unpack_uint: -1 stands for the raised exception
unpack_uint(v) == IF Len(v) \in {1, 2, 4, 8} THEN UnpackLE(v) ELSE -1

(***************************************************************************)
(* Constants of envelope.py                                                *)
(***************************************************************************)
MAGIC == <<91, 75, 93, 0>>

TAG_END == 0
TAG_DATA_SIZE == 1
TAG_PLAIN_SIZE == 2
TAG_COMPRESSION == 3
TAG_CIPHER == 4
TAG_PWHASH == 5
TAG_SALT == 6
TAG_OPS_LIMIT == 7
TAG_MEM_LIMIT == 8
TAG_CRC32 == 9

PWHASH_SCRYPT == 1
PWHASH_ARGON2I == 2
PWHASH_ARGON2ID == 3
CIPHER_XSALSA20_POLY1305 == 1
NOOP_ID == 0
DEFLATE_ID == 1

\* nacl.pwhash.argon2i: SALTBYTES, OPSLIMIT_INTERACTIVE, MEMLIMIT_INTERACTIVE
SALTBYTES == 16
OPSLIMIT_INTERACTIVE == 4
MEMLIMIT_INTERACTIVE == 33554432
\* nacl.secret.SecretBox: NONCE_SIZE + MACBYTES bytes precede the ciphertext
BOX_OVERHEAD == 40

NoKey == <<>>

(***************************************************************************)
(* Compressors                                                             *)
(***************************************************************************)
\* zlib.crc32, abstracted to a position-weighted checksum (TLC integers are
\* 32-bit signed, so the checksum is reduced modulo 2^31 - 1)
SymCode(s) == IF Len(s) = 1 THEN CharCode(s[1]) ELSE 43

crc32(data) ==
    SumSeq([i \in 1..Len(data) |-> i * SymCode(data[i])]) % 2147483647

\* raw deflate, abstracted to run-length coding: a run is <<count, symbol>>
\* (computed by halves: the runs that meet at the middle are merged)
RECURSIVE Runs(_)
Runs(data) ==
    IF data = <<>> THEN <<>>
    ELSE IF Len(data) = 1 THEN << <<1, data[1]>> >>
    ELSE LET h == Len(data) \div 2
             l == Runs(SubSeq(data, 1, h))
             r == Runs(SubSeq(data, h + 1, Len(data)))
         IN  IF l[Len(l)][2] = r[1][2]
             THEN SubSeq(l, 1, Len(l) - 1)
                    \o << <<l[Len(l)][1] + r[1][1], r[1][2]>> >> \o Tail(r)
             ELSE l \o r

\* a compressobj whose final flush() is forgotten loses the last run
DeflateCompressNoFlush(data) ==
    LET r == Runs(data) IN IF r = <<>> THEN r ELSE SubSeq(r, 1, Len(r) - 1)

DeflateCompress(data) == Runs(data)

IsDeflate(data) == \A i \in 1..Len(data) : Len(data[i]) = 2

\* DeflateCompressor.decompress: plain_size is only the initial buffer size
DeflateDecompress(data, plain_size) ==
    Flatten([i \in 1..Len(data) |-> [j \in 1..data[i][1] |-> data[i][2]]])

Compress(id, data) == IF id = DEFLATE_ID THEN DeflateCompress(data) ELSE data

\* zlib.error on input that is no deflate stream
DecompressFails(id, data) == id = DEFLATE_ID /\ ~IsDeflate(data)

Decompress(id, data, plain_size) ==
    IF id = DEFLATE_ID THEN DeflateDecompress(data, plain_size) ELSE data

(***************************************************************************)
(* Envelope                                                                *)
(***************************************************************************)
Salt(r) == [i \in 1..SALTBYTES |-> r]

\* Envelope.__init__ with the salt the CSPRNG returned
NewEnvelope(r) ==
    [pwhash_algo |-> PWHASH_ARGON2I,
     pwhash      |-> PWHASH_ARGON2I,
     compressor  |-> DEFLATE_ID,
     key         |-> NoKey,
     salt        |-> Salt(r),
     ops_limit   |-> OPSLIMIT_INTERACTIVE,
     mem_limit   |-> MEMLIMIT_INTERACTIVE]

\* nacl kdf rejects a salt that is not SALTBYTES long
DeriveFails(env) == Len(env.salt) # SALTBYTES

DeriveKeyIgnoringPassphrase(env, passphrase) ==
    <<env.pwhash, "", env.salt, env.ops_limit, env.mem_limit>>

\* Envelope._derive_key
DeriveKey(env, passphrase) ==
    <<env.pwhash, passphrase, env.salt, env.ops_limit, env.mem_limit>>

\* Envelope.set_passphrase (the caller checks DeriveFails)
EnvSetPassphrase(env, passphrase) ==
    [env EXCEPT !.key = DeriveKey(env, passphrase)]

\* Envelope.check_passphrase
EnvCheckPassphrase(env, passphrase) == env.key = DeriveKey(env, passphrase)

\* Envelope.encrypt: nonce || MAC || ciphertext, as one abstract value
Encrypt(env, nonce, data) == <<"box", env.key, nonce, data>>

BoxLen(ct) == BOX_OVERHEAD + Len(ct[4])

\* SecretBox.decrypt raises unless the box is whole and made under this key
DecryptFailsUnchecked(env, ct) == env.key = NoKey \/ Len(ct) # 4

DecryptFails(env, ct) ==
    env.key = NoKey \/ Len(ct) # 4 \/ ct[2] # env.key

Decrypt(env, ct) == ct[4]

\* Envelope.encrypt_base64 / decrypt_base64 on str values
EncryptBase64(env, nonce, value) == << <<"b64", env.key, nonce, value>> >>

IsBase64Box(value) == Len(value) = 1 /\ Len(value[1]) = 4 /\ value[1][1] = "b64"

DecryptBase64Fails(env, value) ==
    \/ ~IsBase64Box(value)
    \/ DecryptFails(env, <<"box", value[1][2], value[1][3], value[1][4]>>)

DecryptBase64(env, value) == value[1][4]

\* Envelope._write_chunk
WriteChunk(tag, value) == <<tag, Len(value)>> \o value

\* Envelope.write_header
WriteHeader(env, data_size, plain_size, crc) ==
    LET meta_data ==
            WriteChunk(TAG_DATA_SIZE, PackLE(data_size, 4))
         \o WriteChunk(TAG_PLAIN_SIZE, PackLE(plain_size, 4))
         \o WriteChunk(TAG_COMPRESSION, PackLE(env.compressor, 1))
         \o WriteChunk(TAG_CIPHER, PackLE(CIPHER_XSALSA20_POLY1305, 1))
         \o WriteChunk(TAG_PWHASH, PackLE(env.pwhash_algo, 1))
         \o WriteChunk(TAG_SALT, env.salt)
         \o WriteChunk(TAG_OPS_LIMIT, PackLE(env.ops_limit, 1))
         \o WriteChunk(TAG_MEM_LIMIT, PackLE(env.mem_limit, 4))
         \o WriteChunk(TAG_CRC32, PackLE(crc, 4))
    IN  MAGIC \o PackLE(Len(meta_data), 4) \o meta_data

NoStream == [hdr |-> <<>>, body |-> <<"none">>]

\* Envelope.write: the stream is the header bytes and the body
EnvWrite(env, nonce, data) ==
    LET box == Encrypt(env, nonce, Compress(env.compressor, data))
    IN  [hdr  |-> WriteHeader(env, BoxLen(box), Len(data), crc32(data)),
         body |-> box]

\* one pass of the chunk loop of Envelope.read_header over the metadata region;
\* st.err is set where the code raises, st.env carries the fields assigned so far
RECURSIVE ReadChunks(_, _)
ReadChunks(chunks, st) ==
    IF Len(chunks) = 0 THEN st
    ELSE IF Len(chunks) = 1 THEN [st EXCEPT !.err = TRUE]
    ELSE
      LET tag   == chunks[1]
          size  == chunks[2]
          avail == Len(chunks) - 2
          n     == IF size < avail THEN size ELSE avail
          value == SubSeq(chunks, 3, 2 + n)
          rest  == SubSeq(chunks, 3 + n, Len(chunks))
          u     == unpack_uint(value)
      IN  IF tag = TAG_END THEN st
          ELSE IF tag = TAG_DATA_SIZE THEN
              IF u = -1 THEN [st EXCEPT !.err = TRUE]
              ELSE ReadChunks(rest, [st EXCEPT !.data_size = u])
          ELSE IF tag = TAG_PLAIN_SIZE THEN
              IF u = -1 THEN [st EXCEPT !.err = TRUE]
              ELSE ReadChunks(rest, [st EXCEPT !.plain_size = u])
          ELSE IF tag = TAG_COMPRESSION THEN
              IF u \notin {NOOP_ID, DEFLATE_ID} THEN [st EXCEPT !.err = TRUE]
              ELSE ReadChunks(rest, [st EXCEPT !.env.compressor = u])
          ELSE IF tag = TAG_CIPHER THEN
              IF u # CIPHER_XSALSA20_POLY1305 THEN [st EXCEPT !.err = TRUE]
              ELSE ReadChunks(rest, st)
          ELSE IF tag = TAG_PWHASH THEN
              IF u = -1 THEN [st EXCEPT !.err = TRUE]
              ELSE IF u \notin {PWHASH_SCRYPT, PWHASH_ARGON2I, PWHASH_ARGON2ID}
              THEN [st EXCEPT !.err = TRUE, !.env.pwhash_algo = u]
              ELSE ReadChunks(rest, [st EXCEPT !.env.pwhash_algo = u,
                                               !.env.pwhash = u])
          ELSE IF tag = TAG_SALT THEN
              ReadChunks(rest, [st EXCEPT !.env.salt = value])
          ELSE IF tag = TAG_OPS_LIMIT THEN
              IF u = -1 THEN [st EXCEPT !.err = TRUE]
              ELSE ReadChunks(rest, [st EXCEPT !.env.ops_limit = u])
          ELSE IF tag = TAG_MEM_LIMIT THEN
              IF u = -1 THEN [st EXCEPT !.err = TRUE]
              ELSE ReadChunks(rest, [st EXCEPT !.env.mem_limit = u])
          ELSE IF tag = TAG_CRC32 THEN
              IF u = -1 THEN [st EXCEPT !.err = TRUE]
              ELSE ReadChunks(rest, [st EXCEPT !.crc32 = u])
          ELSE ReadChunks(rest, [st EXCEPT !.warnings = @ + 1])

\* Envelope.read_header on the header bytes of a stream; skew is the number of
\* header bytes left unread (or, negative, of body bytes eaten) by read(meta_size)
ReadHeader(env, hdr) ==
    LET st0 == [env |-> env, data_size |-> -1, plain_size |-> -1, crc32 |-> -1,
                err |-> FALSE, warnings |-> 0, skew |-> 0]
    IN  IF Len(hdr) < 8 \/ SubSeq(hdr, 1, 4) # MAGIC THEN [st0 EXCEPT !.err = TRUE]
        ELSE LET meta_size == UnpackLE(SubSeq(hdr, 5, 8))
                 avail     == Len(hdr) - 8
                 n         == IF meta_size < avail THEN meta_size ELSE avail
             IN  [ReadChunks(SubSeq(hdr, 9, 8 + n), st0)
                    EXCEPT !.skew = avail - meta_size]

\* f.read(data_size) after the header: the whole box, or a damaged one
ReadBody(stream, h) ==
    IF h.skew = 0 /\ (h.data_size = -1 \/ h.data_size >= BoxLen(stream.body))
    THEN stream.body
    ELSE <<"damaged">>

\* an Envelope.read that does not compare the checksum
EnvReadNoCrc(env, stream, passphrase) ==
    LET h    == ReadHeader(env, stream.hdr)
        fail == [err |-> TRUE, env |-> h.env, data |-> <<>>]
    IN  IF h.err \/ DeriveFails(h.env) THEN fail
        ELSE
          LET e2   == EnvSetPassphrase(h.env, passphrase)
              box  == ReadBody(stream, h)
              bad  == [fail EXCEPT !.env = e2]
          IN  IF DecryptFails(e2, box) THEN bad
              ELSE IF DecompressFails(e2.compressor, Decrypt(e2, box)) THEN bad
              ELSE
                LET data == Decompress(e2.compressor, Decrypt(e2, box), h.plain_size)
                IN  IF h.plain_size # -1 /\ Len(data) # h.plain_size THEN bad
                    ELSE [err |-> FALSE, env |-> e2, data |-> data]

\* Envelope.read: [err, env, data]; env is the envelope as the call leaves it
EnvRead(env, stream, passphrase) ==
    LET h    == ReadHeader(env, stream.hdr)
        fail == [err |-> TRUE, env |-> h.env, data |-> <<>>]
    IN  IF h.err \/ DeriveFails(h.env) THEN fail
        ELSE
          LET e2   == EnvSetPassphrase(h.env, passphrase)
              box  == ReadBody(stream, h)
              bad  == [fail EXCEPT !.env = e2]
          IN  IF DecryptFails(e2, box) THEN bad
              ELSE IF DecompressFails(e2.compressor, Decrypt(e2, box)) THEN bad
              ELSE
                LET data == Decompress(e2.compressor, Decrypt(e2, box), h.plain_size)
                IN  IF h.plain_size # -1 /\ Len(data) # h.plain_size THEN bad
                    ELSE IF h.crc32 # -1 /\ crc32(data) # h.crc32 THEN bad
                    ELSE [err |-> FALSE, env |-> e2, data |-> data]

(***************************************************************************)
(* Record (keys/record.py) and the tab-delimited file format               *)
(***************************************************************************)
COLUMNS == <<"site", "user", "url", "tags", "mtime", "note", "password">>

ColSet(columns) == Range(columns)

\* Record.__init__(columns=..., **kwargs): every standard column is present
NewRecord(kwargs) ==
    [c \in ColSet(COLUMNS) \cup DOMAIN kwargs |->
        IF c \in DOMAIN kwargs THEN kwargs[c] ELSE <<>>]

\* len() of a str: a Base64 box stands for 4 * ceil((overhead + len) / 3) characters
SymLen(sym) ==
    IF Len(sym) = 4 THEN 4 * ((BOX_OVERHEAD + Len(sym[4]) + 2) \div 3) ELSE 1

StrLen(value) == SumSeq([i \in 1..Len(value) |-> SymLen(value[i])])

\* sep.join(fields)
Join(fields, sep) ==
    Flatten([i \in 1..Len(fields) |->
                IF i = 1 THEN fields[i] ELSE <<sep>> \o fields[i]])

\* str.split(sep): the fields between the separators, at least one field
\* (computed by halves: the fields that meet at the middle are joined)
RECURSIVE Split(_, _)
Split(text, sep) ==
    IF text = <<>> THEN << <<>> >>
    ELSE IF Len(text) = 1 THEN (IF text[1] = sep THEN << <<>>, <<>> >> ELSE <<text>>)
    ELSE LET h == Len(text) \div 2
             l == Split(SubSeq(text, 1, h), sep)
             r == Split(SubSeq(text, h + 1, Len(text)), sep)
         IN  SubSeq(l, 1, Len(l) - 1) \o << l[Len(l)] \o r[1] >> \o Tail(r)

\* format_header: a column name is one symbol of the line
format_header(columns) ==
    Join([i \in 1..Len(columns) |-> << <<columns[i]>> >>], TAB) \o <<LF>>

\* a format_record that leaves out empty values
format_record_skip_empty(record, columns) ==
    Join(SelectSeq([i \in 1..Len(columns) |-> record[columns[i]]],
                   LAMBDA v : v # <<>>), TAB) \o <<LF>>

\* format_record on a mapping from column to str
format_record(record, columns) ==
    Join([i \in 1..Len(columns) |-> record[columns[i]]], TAB) \o <<LF>>

\* write_file / format_file
format_file(records, columns) ==
    format_header(columns)
        \o Flatten([i \in 1..Len(records) |-> format_record(records[i], columns)])

\* iteration over io.StringIO: the lines, without their terminating LF
\* (parse_header and parse_record strip it)
FileLines(data) ==
    LET parts == Split(data, LF)
    IN  IF parts[Len(parts)] = <<>> THEN SubSeq(parts, 1, Len(parts) - 1) ELSE parts

ColName(field) ==
    IF Len(field) = 1 /\ Len(field[1]) = 1 THEN field[1][1] ELSE "?"

\* parse_header
parse_header(line) ==
    LET fields == Split(line, TAB) IN [i \in 1..Len(fields) |-> ColName(fields[i])]

\* parse_record: Record(zip(columns, values)), a later duplicate column wins
parse_record(line, columns) ==
    LET values == Split(line, TAB)
        n      == IF Len(values) < Len(columns) THEN Len(values) ELSE Len(columns)
        given  == {columns[i] : i \in 1..n}
        last(c) == CHOOSE i \in 1..n :
                      columns[i] = c /\ \A j \in 1..n : columns[j] = c => j <= i
    IN  [c \in ColSet(COLUMNS) \cup given |->
            IF c \in given THEN values[last(c)] ELSE <<>>]

\* read_file / parse_file: [records, columns]
parse_file(data) ==
    LET lines   == FileLines(data)
        columns == parse_header(IF lines = <<>> THEN <<>> ELSE lines[1])
    IN  [records |-> [i \in 1..Len(lines) - 1 |-> parse_record(lines[i + 1], columns)],
         columns |-> columns]

\* nt_escape
nt_escape(text) ==
    Flatten([i \in 1..Len(text) |->
                IF text[i] = BSL THEN <<BSL, BSL>>
                ELSE IF text[i] = LF THEN <<BSL, <<"n">> >>
                ELSE IF text[i] = TAB THEN <<BSL, <<"t">> >>
                ELSE <<text[i]>>])

(***************************************************************************)
(* Keybox (keybox/keybox.py).  A Keybox is a record                        *)
(*   records, columns, widths, envelope, modified : its fields             *)
(*   plain : history only, the password last set for each record           *)
(* A proxy (KeyboxRecord, EncryptedRecord) is the index of its record.     *)
(* An operation returns [err, kb]: whether it raised, and the Keybox as    *)
(* it leaves it.                                                           *)
(***************************************************************************)
IMPORT_MIN_MATCHED_COLS == 3

\* time.strftime('%F %T') of the local clock, as a fixed-width digit string
Fmt(t) == << <<ToString((t \div 10) % 10)>>, <<ToString(t % 10)>> >>

\* Keybox.__init__ with the salt its Envelope drew
NewKeybox(r) ==
    [records  |-> <<>>,
     columns  |-> COLUMNS,
     widths   |-> [c \in ColSet(COLUMNS) |-> 0],
     envelope |-> NewEnvelope(r),
     modified |-> FALSE,
     plain    |-> <<>>]

Ok(kb) == [err |-> FALSE, kb |-> kb]
Raise(kb) == [err |-> TRUE, kb |-> kb]

\* Keybox.update_width; width 0 stands for a column without an entry
update_width(kb, column, value) ==
    LET new_width == StrLen(value) + 2
        old       == IF column \in DOMAIN kb.widths THEN kb.widths[column] ELSE 0
    IN  IF new_width > old
        THEN [kb EXCEPT !.widths =
                 [c \in DOMAIN kb.widths \cup {column} |->
                     IF c = column THEN new_width ELSE kb.widths[c]]]
        ELSE kb

\* KeyboxRecord.touch
RecordTouch(kb, i, now) ==
    [update_width([kb EXCEPT !.records[i]["mtime"] = Fmt(now)], "mtime", Fmt(now))
        EXCEPT !.modified = TRUE]

RECURSIVE UpdateWidths(_, _, _)
UpdateWidths(kb, record, keys) ==
    IF keys = {} THEN kb
    ELSE LET k == CHOOSE k \in keys : TRUE
         IN  UpdateWidths(update_width(kb, k, record[k]), record, keys \ {k})

\* KeyboxRecord.__init__: touch a record without mtime, widen the columns
KeyboxRecordInit(kb, i, now) ==
    LET kb1 == IF kb.records[i]["mtime"] = <<>> THEN RecordTouch(kb, i, now) ELSE kb
    IN  UpdateWidths(kb1, kb1.records[i], DOMAIN kb1.records[i])

\* EncryptedRecord.__getitem__: [err, value]
GetItem(kb, i, key) ==
    LET value == kb.records[i][key]
    IN  IF key = "password" /\ value # <<>>
        THEN IF DecryptBase64Fails(kb.envelope, value)
             THEN [err |-> TRUE, value |-> <<>>]
             ELSE [err |-> FALSE, value |-> DecryptBase64(kb.envelope, value)]
        ELSE [err |-> FALSE, value |-> value]

\* what record["password"] gives through a proxy, for every record
Passwords(kb) == [i \in 1..Len(kb.records) |-> GetItem(kb, i, "password")]

\* EncryptedRecord.__setitem__
EncryptedSetItem(kb, i, key, value, nonce) ==
    IF key = "password"
    THEN IF kb.envelope.key = NoKey THEN Raise(kb)
         ELSE Ok([kb EXCEPT !.records[i][key] = EncryptBase64(kb.envelope, nonce, value),
                            !.plain[i] = value])
    ELSE Ok([kb EXCEPT !.records[i][key] = value])

\* a __setitem__ that touches the record before it looks at the key
SetItemTouching(kb, i, key, value, nonce, now) ==
    LET kb0 == RecordTouch(KeyboxRecordInit(kb, i, now), i, now)
    IN  IF key = "mtime" THEN Raise(kb0)
        ELSE LET r == EncryptedSetItem(kb0, i, key, value, nonce)
             IN  IF r.err THEN r
                 ELSE Ok(RecordTouch(update_width(r.kb, key, value), i, now))

\* KeyboxRecord.__setitem__ through the proxy keybox[i]
SetItem(kb, i, key, value, nonce, now) ==
    LET kb0 == KeyboxRecordInit(kb, i, now)
    IN  IF key = "mtime" THEN Raise(kb0)
        ELSE LET r == EncryptedSetItem(kb0, i, key, value, nonce)
             IN  IF r.err THEN r
                 ELSE Ok(RecordTouch(update_width(r.kb, key, value), i, now))

\* Keybox.add_record; Record.__init__ raises on a keyword that is no column of
\* the Keybox (it cannot append to the tuple of columns), encrypt_base64 on a
\* password without a key
add_record(kb, kwargs, nonce, now) ==
    LET password == IF "password" \in DOMAIN kwargs THEN kwargs["password"] ELSE <<>>
        rest     == [c \in DOMAIN kwargs \ {"password"} |-> kwargs[c]]
        record   == IF password # <<>>
                    THEN [NewRecord(rest) EXCEPT
                            !["password"] = EncryptBase64(kb.envelope, nonce, password)]
                    ELSE NewRecord(rest)
        kb1      == [kb EXCEPT !.records = Append(@, record),
                               !.plain = Append(@, password)]
    IN  IF ~(DOMAIN rest \subseteq ColSet(kb.columns)) THEN Raise(kb)
        ELSE IF password # <<>> /\ kb.envelope.key = NoKey THEN Raise(kb)
        ELSE Ok(KeyboxRecordInit(kb1, Len(kb1.records), now))

RemoveAt(s, i) == SubSeq(s, 1, i - 1) \o SubSeq(s, i + 1, Len(s))

\* Keybox.delete_record: list.remove drops the first record equal to the proxy's
delete_record(kb, i) ==
    LET first == CHOOSE j \in 1..Len(kb.records) :
                    /\ kb.records[j] = kb.records[i]
                    /\ \A k \in 1..j - 1 : kb.records[k] # kb.records[i]
    IN  Ok([kb EXCEPT !.records = RemoveAt(@, first),
                      !.plain = RemoveAt(@, first),
                      !.modified = TRUE])

\* the loop of Keybox.set_passphrase from record i on; nonce0 + i is the nonce
\* drawn for record i
RECURSIVE Reencrypt(_, _, _, _)
Reencrypt(kb, previous, i, nonce0) ==
    IF i > Len(kb.records) THEN Ok([kb EXCEPT !.modified = TRUE])
    ELSE LET raw == kb.records[i]["password"]
         IN  IF DecryptBase64Fails(previous, raw) THEN Raise(kb)
             ELSE Reencrypt(
                    [kb EXCEPT !.records[i]["password"] =
                        EncryptBase64(kb.envelope, nonce0 + i,
                                      DecryptBase64(previous, raw))],
                    previous, i + 1, nonce0)

\* Keybox.set_passphrase; r is the salt of the new Envelope
set_passphrase(kb, new_passphrase, r, nonce0) ==
    Reencrypt([kb EXCEPT !.envelope = EnvSetPassphrase(NewEnvelope(r), new_passphrase)],
              kb.envelope, 1, nonce0)

\* Keybox.recompute_widths
recompute_widths(kb) ==
    LET Max(S) == CHOOSE m \in S : \A x \in S : x <= m
        w(c)   == 2 + IF kb.records = <<>> THEN 0
                      ELSE Max({StrLen(kb.records[i][c]) : i \in 1..Len(kb.records)})
    IN  [kb EXCEPT !.widths =
            [c \in DOMAIN kb.widths \cup ColSet(kb.columns) |->
                IF c \in ColSet(kb.columns) THEN w(c) ELSE kb.widths[c]]]

\* Keybox.read; passwords is the history that belongs to the stream's records
read(kb, file, passphrase, passwords) ==
    LET res == EnvRead(kb.envelope, file, passphrase)
        kb1 == [kb EXCEPT !.envelope = res.env]
        tab == parse_file(res.data)
    IN  IF res.err THEN Raise(kb1)
        ELSE Ok(recompute_widths(
                 [kb1 EXCEPT !.records = tab.records, !.columns = tab.columns,
                             !.modified = FALSE, !.plain = passwords]))

\* Keybox.write: [err, kb, file]
write(kb, nonce) ==
    IF kb.envelope.key = NoKey
    THEN [err |-> TRUE, kb |-> kb, file |-> NoStream]
    ELSE [err |-> FALSE, kb |-> [kb EXCEPT !.modified = FALSE],
          file |-> EnvWrite(kb.envelope, nonce, format_file(kb.records, kb.columns))]

\* ExportRecord.__getitem__: [err, value]
ExportGetItem(kb, i, key) ==
    LET v == GetItem(kb, i, key)
    IN  IF key = "password" /\ ~v.err THEN [v EXCEPT !.value = nt_escape(@)] ELSE v

\* Keybox.export_file(file, 'plain'): [err, text]; a record whose password does
\* not decrypt stops the export after the lines already written
export_file(kb) ==
    LET bad   == {i \in 1..Len(kb.records) : GetItem(kb, i, "password").err}
        n     == IF bad = {} THEN Len(kb.records)
                 ELSE (CHOOSE i \in bad : \A j \in bad : i <= j) - 1
        rec(i) == [c \in DOMAIN kb.records[i] |-> ExportGetItem(kb, i, c).value]
    IN  [err  |-> bad # {},
         text |-> format_file([i \in 1..n |-> rec(i)], kb.columns)]

\* the loop of Keybox._match_record from candidate k on; candidates are the
\* indexes of the records the proxies wrap: [err, matching, exact]
RECURSIVE MatchLoop(_, _, _, _, _, _)
MatchLoop(kb, candidates, k, other, min_score, matching) ==
    IF k > Len(candidates)
    THEN [err |-> FALSE, matching |-> matching, exact |-> FALSE]
    ELSE LET rec    == candidates[k]
             get(c) == IF c \in DOMAIN other THEN other[c] ELSE <<>>
             score0 == Cardinality({i \in 1..Len(kb.columns) :
                          /\ kb.columns[i] # "password"
                          /\ kb.records[rec][kb.columns[i]] = get(kb.columns[i])})
             pw     == GetItem(kb, rec, "password")
             score  == IF pw.value = other["password"] THEN score0 + 1 ELSE score0
         IN  IF score0 + 1 < min_score
             THEN MatchLoop(kb, candidates, k + 1, other, min_score, matching)
             ELSE IF pw.err \/ "password" \notin DOMAIN other
             THEN [err |-> TRUE, matching |-> matching, exact |-> FALSE]
             ELSE IF score < min_score
             THEN MatchLoop(kb, candidates, k + 1, other, min_score, matching)
             ELSE IF score = Len(kb.columns)
             THEN [err |-> FALSE, matching |-> <<rec>>, exact |-> TRUE]
             ELSE IF score > min_score
             THEN MatchLoop(kb, candidates, k + 1, other, score, <<rec>>)
             ELSE MatchLoop(kb, candidates, k + 1, other, min_score,
                            Append(matching, rec))

\* Keybox._match_record
match_record(kb, candidates, other) ==
    MatchLoop(kb, candidates, 1, other, IMPORT_MIN_MATCHED_COLS, <<>>)

\* candidates.remove(rec): proxies compare by identity
Without(candidates, rec) == SelectSeq(candidates, LAMBDA c : c # rec)

\* rec[column] = new_rec[column] for the columns from k on, through an
\* EncryptedRecord
RECURSIVE ReplaceColumns(_, _, _, _, _)
ReplaceColumns(kb, rec, new_rec, k, nonce) ==
    IF k > Len(kb.columns) THEN Ok(kb)
    ELSE IF kb.columns[k] \notin DOMAIN new_rec THEN Raise(kb)
    ELSE LET r == EncryptedSetItem(kb, rec, kb.columns[k], new_rec[kb.columns[k]], nonce)
         IN  IF r.err THEN r ELSE ReplaceColumns(r.kb, rec, new_rec, k + 1, nonce)

\* the state of a running import_file: the Keybox, the candidates, the
\* counters, the number of nonces drawn, and as history one entry per incoming
\* record saying what was done with it
ImportStart(kb, nonce) ==
    [err |-> FALSE, kb |-> kb,
     candidates |-> [i \in 1..Len(kb.records) |-> i],
     n_new |-> 0, n_updated |-> 0, nonce |-> nonce, log |-> <<>>]

Logged(st, kind, rec) == [st EXCEPT !.log = Append(@, [kind |-> kind, rec |-> rec])]

\* an 'add' branch that leaves n_new as it is
ImportAddUncounted(st, new_rec, kind, now) ==
    LET r == add_record(st.kb, new_rec, st.nonce + 1, now)
    IN  IF r.err THEN [st EXCEPT !.err = TRUE, !.kb = r.kb]
        ELSE Logged([st EXCEPT !.kb = [r.kb EXCEPT !.modified = TRUE],
                               !.nonce = @ + 1],
                    kind, Len(r.kb.records))

\* the new and the 'add' branch of import_file
ImportAdd(st, new_rec, kind, now) ==
    LET r == add_record(st.kb, new_rec, st.nonce + 1, now)
    IN  IF r.err THEN [st EXCEPT !.err = TRUE, !.kb = r.kb]
        ELSE Logged([st EXCEPT !.kb = [r.kb EXCEPT !.modified = TRUE],
                               !.n_new = @ + 1, !.nonce = @ + 1],
                    kind, Len(r.kb.records))

Resolutions == {"replace", "add", "keep_local", "unknown"}

\* what the resolve callback can return when it is given matching: a
\* resolution and, for replace, one of the matched records
Answers(matching) ==
    {[resolution |-> "replace", n |-> n] : n \in 1..Len(matching)}
        \cup {[resolution |-> r, n |-> 0] : r \in Resolutions \ {"replace"}}

\* the branch of import_file for a record with similar local records, the
\* resolve callback returning answer
ImportResolved(st, new_rec, matching, answer, now) ==
    IF answer.resolution = "replace"
    THEN LET rec == matching[answer.n]
             r   == ReplaceColumns(st.kb, rec, new_rec, 1, st.nonce + 1)
         IN  IF r.err THEN [st EXCEPT !.err = TRUE, !.kb = r.kb]
             ELSE Logged([st EXCEPT !.kb = [r.kb EXCEPT !.modified = TRUE],
                                    !.candidates = Without(@, rec),
                                    !.n_updated = @ + 1, !.nonce = @ + 1],
                         "replace", rec)
    ELSE IF answer.resolution = "add" THEN ImportAdd(st, new_rec, "add", now)
    ELSE IF answer.resolution = "keep_local" THEN Logged(st, "keep_local", 0)
    ELSE Logged([st EXCEPT !.err = TRUE], answer.resolution, 0)

\* one round of the loop of import_file, for the incoming record new_rec: the
\* states it can end in, one for each answer of the resolve callback
ImportRecord(st, new_rec, now) ==
    LET m == match_record(st.kb, st.candidates, new_rec)
    IN  IF m.err THEN {[st EXCEPT !.err = TRUE]}
        ELSE IF m.exact
        THEN {Logged([st EXCEPT !.candidates = Without(@, m.matching[1])],
                     "exact", m.matching[1])}
        ELSE IF m.matching = <<>> THEN {ImportAdd(st, new_rec, "new", now)}
        ELSE {ImportResolved(st, new_rec, m.matching, a, now) : a \in Answers(m.matching)}

\* the loop of import_file from the n-th incoming record on
RECURSIVE ImportLoop(_, _, _, _)
ImportLoop(st, records, n, now) ==
    IF n > Len(records) \/ st.err THEN {st}
    ELSE UNION {ImportLoop(st1, records, n + 1, now) :
                    st1 \in ImportRecord(st, records[n], now)}

\* import_file after the file is parsed: the assertion on the columns, then
\* the loop; the outcomes it can have, with n_total
import_records(kb, records, columns, nonce, now) ==
    LET st0 == ImportStart(kb, nonce)
        end == IF columns \subseteq ColSet(kb.columns)
               THEN ImportLoop(st0, records, 1, now)
               ELSE {[st0 EXCEPT !.err = TRUE]}
    IN  {[err |-> st.err, kb |-> st.kb, nonce |-> st.nonce, log |-> st.log,
          incoming |-> records, n_total |-> Len(records),
          n_new |-> st.n_new, n_updated |-> st.n_updated] : st \in end}

\* Keybox.import_file(file, 'plain', ...)
import_file(kb, text, nonce, now) ==
    UNION {import_records(kb, tab.records, ColSet(tab.columns), nonce, now) :
               tab \in {parse_file(text)}}

\* Keybox.import_file(file, 'json', ...) of a file that holds the list records
\* of objects with string members: the columns are the keys of the first
import_json(kb, records, nonce, now) ==
    import_records(kb, records,
                   IF records = <<>> THEN {} ELSE DOMAIN records[1], nonce, now)

\* the incoming records of a keybox file as import_file reads them through
\* EncryptedRecord proxies of the input envelope env, up to the first whose
\* password does not decrypt: [bad, records]
Incoming(env, tab) ==
    LET input == [NewKeybox(1) EXCEPT !.envelope = env, !.records = tab.records]
        bad   == {i \in 1..Len(tab.records) : GetItem(input, i, "password").err}
        n     == IF bad = {} THEN Len(tab.records)
                 ELSE (CHOOSE i \in bad : \A j \in bad : i <= j) - 1
    IN  [bad     |-> bad # {},
         records |-> [i \in 1..n |->
                        [c \in DOMAIN tab.records[i] |-> GetItem(input, i, c).value]]]

\* Keybox.import_file(file, 'keybox', ...): the input envelope (salt r) reads
\* the file with the passphrase from fn_passphrase; a password that does not
\* decrypt raises in the round of its record
import_keybox(kb, stream, passphrase, r, nonce, now) ==
    UNION {
        IF res.err
        THEN {[err |-> TRUE, kb |-> kb, nonce |-> nonce, log |-> <<>>,
               incoming |-> <<>>, n_total |-> 0, n_new |-> 0, n_updated |-> 0]}
        ELSE UNION {
               UNION {
                 {[o EXCEPT !.err = @ \/ inc.bad] :
                      o \in import_records(kb, inc.records, ColSet(tab.columns), nonce, now)} :
                 inc \in {Incoming(res.env, tab)}} :
               tab \in {parse_file(res.data)}} :
        res \in {EnvRead(NewEnvelope(r), stream, passphrase)}}

(***************************************************************************)
(* State                                                                   *)
(***************************************************************************)
VARIABLES
    \* DataSafe (datasafe.py): its envelope, the stream it wrote last, what
    \* was written under which passphrase, the outcome of the last read
    safe, stream, swritten, sout,
    \* one Keybox and the stream it wrote last; written is the history of that
    \* write, vout the outcome of the last call, clock the local time, rng the
    \* number of values drawn from the CSPRNG, steps the number of calls made
    kb, file, written, vout, clock, rng, steps,
    \* the plain-text dump export_file wrote last, with the Keybox it was made
    \* of, and the outcome of the last import_file
    dump, imp,
    \* a file of some format handed to import_file
    inbox,
    \* the last call on the Keybox with its arguments and the Keybox before it,
    \* and the records and passphrase at the last successful read or write
    call, saved,
    \* the last get_tags query and its answer
    tagout,
    \* the directory of the keybox file: fs gives the inode each of the two
    \* names refers to (0: no such file), disk what each inode holds, lockOwner
    \* the process holding the lockf lock on it (0: none); proc is the KeyboxUI
    \* of each process, opens the number of runs started
    fs, disk, lockOwner, proc, opens,
    \* the memory of one process: heap gives for each address the object at it
    \* and the bytes there, held the address of the key of the Keybox's
    \* Envelope (0: none), discarded the addresses of the keys of the
    \* Envelopes dropped so far, names the addresses a variable refers to
    heap, held, discarded, names,
    \* one call of Keybox._match_record: the candidates and the incoming
    \* record it was given, what it returned, and the candidate import_file
    \* removed after an exact match (0: none)
    pool

envVars == <<safe, stream, swritten, sout>>
impVars == <<dump, imp, inbox>>
callVars == <<call, saved, tagout>>
kbVars == <<kb, file, written, vout, clock, rng, steps, impVars, callVars>>
uiVars == <<fs, disk, lockOwner, proc, opens>>
memVars == <<heap, held, discarded, names>>
matchVars == <<pool>>
vars == <<envVars, kbVars, uiVars, memVars, matchVars>>

Procs == 1..NProcs
\* an inode for each name and for each open file
Inodes == 1..(NProcs + 2)

\* KeyboxUI.__init__; pc is the place the process is at, crash how its last
\* run ended, closing whether close() is running ("running") or how it
\* returned in write mode (no: close was not called); stale says that <path>
\* was replaced by another process after this one read it, leased whether that
\* was so when the process last locked the tmp file
NewUI ==
    [pc |-> "idle", wfile |-> 0, buffered |-> FALSE, spilled |-> FALSE,
     modified |-> FALSE, creating |-> FALSE, then |-> "prompt", crash |-> "none",
     closing |-> "no", stale |-> FALSE, leased |-> "no"]

UiIdle ==
    /\ fs = [path |-> 1, tmp |-> 0]
    /\ disk = [i \in Inodes |-> IF i = 1 THEN "complete" ELSE "free"]
    /\ lockOwner = [i \in Inodes |-> 0]
    /\ proc = [p \in Procs |-> NewUI]
    /\ opens = 0

NoPool == [asked |-> FALSE, candidates |-> <<>>, other |-> <<>>, removed |-> 0,
           res |-> [err |-> FALSE, matching |-> <<>>, exact |-> FALSE]]

\* an address for each bytes object the process may allocate
Addrs == 1..MaxBufs

MemIdle ==
    /\ heap = [a \in Addrs |-> [state |-> "unused", data |-> <<>>, wrapped |-> "no"]]
    /\ held = 0
    /\ discarded = {}
    /\ names = {}
    /\ pool = NoPool

Passphrases == {"secret", "secret2"}
Rand == 1..NRand

RECURSIVE SeqsUpTo(_, _)
SeqsUpTo(S, n) ==
    IF n = 0 THEN {<<>>}
    ELSE LET shorter == SeqsUpTo(S, n - 1)
         IN  shorter \cup {Append(s, x) : s \in shorter, x \in S}

Payloads == SeqsUpTo({<<"a">>, <<"b">>}, MaxLen)

NoOut == [op |-> "none", pp |-> "", err |-> FALSE, data |-> <<>>]

(***************************************************************************)
(* DataSafe: an Envelope around an arbitrary payload                       *)
(***************************************************************************)
NoWritten == [pp |-> "", records |-> <<>>, plain |-> <<>>, dec |-> <<>>]
NoVout == [op |-> "none", err |-> FALSE, pp |-> ""]
NoDump == [made |-> FALSE, err |-> FALSE, text |-> <<>>, of |-> NewKeybox(1)]
NoInbox == [format |-> "none", text |-> <<>>, records |-> <<>>,
            stream |-> NoStream, pp |-> "", carries |-> {}]
NoCall == [op |-> "none", i |-> 0, key |-> "", value |-> <<>>, kwargs |-> <<>>,
           before |-> NewKeybox(1), proxied |-> NewKeybox(1)]
NoSaved == [records |-> <<>>, passphrase |-> ""]
NoTags == [asked |-> FALSE, given |-> FALSE, start_text |-> <<>>, result |-> <<>>]
NoImp == [before |-> NewKeybox(1), incoming |-> <<>>, log |-> <<>>,
          n_total |-> 0, n_new |-> 0, n_updated |-> 0]

EnvIdle ==
    /\ safe = NewEnvelope(1)
    /\ stream = NoStream
    /\ swritten = [pp |-> "", data |-> <<>>]
    /\ sout = NoOut

KbIdle ==
    /\ kb = NewKeybox(1)
    /\ file = NoStream
    /\ written = NoWritten
    /\ vout = NoVout
    /\ clock = 0
    /\ rng = 1
    /\ steps = 0
    /\ dump = NoDump
    /\ imp = NoImp
    /\ inbox = NoInbox
    /\ call = NoCall
    /\ saved = NoSaved
    /\ tagout = NoTags

EnvInit ==
    /\ safe \in {NewEnvelope(r) : r \in Rand}
    /\ stream = NoStream
    /\ swritten = [pp |-> "", data |-> <<>>]
    /\ sout = NoOut
    /\ KbIdle
    /\ UiIdle
    /\ MemIdle

\* DataSafe.set_passphrase
SafeSetPassphrase(p) ==
    /\ safe' = EnvSetPassphrase(safe, p)
    /\ UNCHANGED <<stream, swritten, sout>>
    /\ UNCHANGED <<kbVars, uiVars, memVars, matchVars>>

\* DataSafe.write_data; without a key Envelope.encrypt raises
SafeWriteData(x, nonce) ==
    /\ safe.key # NoKey
    /\ stream' = EnvWrite(safe, nonce, x)
    /\ swritten' = [pp |-> safe.key[2], data |-> x]
    /\ sout' = NoOut
    /\ UNCHANGED safe
    /\ UNCHANGED <<kbVars, uiVars, memVars, matchVars>>

\* DataSafe.read_data of the written stream by a fresh DataSafe
SafeReadData(q, r) ==
    /\ stream # NoStream
    /\ LET res == EnvRead(NewEnvelope(r), stream, q)
       IN  sout' = [op |-> "read", pp |-> q, err |-> res.err, data |-> res.data]
    /\ UNCHANGED <<safe, stream, swritten>>
    /\ UNCHANGED <<kbVars, uiVars, memVars, matchVars>>

\* Envelope.decrypt of the written box by another Envelope (test_wrong_passphrase)
RawDecrypt(q, r) ==
    /\ stream # NoStream
    /\ LET env2 == EnvSetPassphrase(NewEnvelope(r), q)
           bad  == DecryptFails(env2, stream.body)
       IN  sout' = [op |-> "decrypt", pp |-> q, err |-> bad,
                    data |-> IF bad THEN <<>> ELSE Decrypt(env2, stream.body)]
    /\ UNCHANGED <<safe, stream, swritten>>
    /\ UNCHANGED <<kbVars, uiVars, memVars, matchVars>>

EnvNext ==
    \/ \E p \in Passphrases : SafeSetPassphrase(p)
    \/ \E x \in Payloads, n \in Rand : SafeWriteData(x, n)
    \/ \E q \in Passphrases, r \in Rand : SafeReadData(q, r)
    \/ \E q \in Passphrases, r \in Rand : RawDecrypt(q, r)

SpecEnv == EnvInit /\ [][EnvNext]_vars

\* C1: a stream written by Envelope.write under passphrase p and read by a fresh
\* Envelope whose callback returns p yields exactly the payload written, the
\* empty payload included.
C1_WriteReadRoundTrip ==
    (sout.op = "read" /\ sout.pp = swritten.pp)
        => (~sout.err /\ sout.data = swritten.data)

C1_Witness ==
    /\ sout.op = "read" /\ sout.pp = swritten.pp
    /\ swritten.data = <<>> /\ ~sout.err

\* C2: reading or raw-decrypting data encrypted under p with a passphrase
\* p' # p raises and returns no plaintext.
C2_WrongPassphraseFails ==
    (sout.op \in {"read", "decrypt"} /\ sout.pp # swritten.pp)
        => (sout.err /\ sout.data = <<>>)

C2_Witness ==
    /\ sout.op = "read" /\ sout.pp # swritten.pp /\ sout.err
    /\ Len(swritten.data) > 0

(***************************************************************************)
(* Envelope files with a metadata region changed after they were written   *)
(***************************************************************************)
\* the metadata region of the header bytes, and the header around a region
MetaOf(hdr) == SubSeq(hdr, 9, Len(hdr))
WithMeta(meta) == MAGIC \o PackLE(Len(meta), 4) \o meta

\* the offsets in the region where a chunk starts or the region ends
RECURSIVE Boundaries(_, _)
Boundaries(meta, off) ==
    IF off + 2 > Len(meta) THEN {off}
    ELSE {off} \cup Boundaries(meta, off + 2 + meta[off + 2])

\* the header with one more chunk at offset off of the region
Inserted(hdr, off, tag, value) ==
    LET meta == MetaOf(hdr)
    IN  WithMeta(SubSeq(meta, 1, off) \o WriteChunk(tag, value)
                    \o SubSeq(meta, off + 1, Len(meta)))

\* 256 ** width
RECURSIVE Pow256(_)
Pow256(width) == IF width = 0 THEN 1 ELSE 256 * Pow256(width - 1)

\* the number a chunk of the region holds
ChunkTag(hdr, off) == MetaOf(hdr)[off + 1]
ChunkUint(hdr, off) ==
    LET meta == MetaOf(hdr)
    IN  UnpackLE(SubSeq(meta, off + 3, off + 2 + meta[off + 2]))

\* the header with the number of the chunk at off packed in width bytes
Recoded(hdr, off, width) ==
    LET meta == MetaOf(hdr)
    IN  WithMeta(SubSeq(meta, 1, off)
                    \o WriteChunk(meta[off + 1], PackLE(ChunkUint(hdr, off), width))
                    \o SubSeq(meta, off + 3 + meta[off + 2], Len(meta)))

UintTags == {TAG_DATA_SIZE, TAG_PLAIN_SIZE, TAG_COMPRESSION, TAG_CIPHER, TAG_PWHASH,
             TAG_OPS_LIMIT, TAG_MEM_LIMIT, TAG_CRC32}

\* tags, values and widths a changed file is given
NewTags == {9, 10, 255}
NewValues == {<<>>, <<7>>, <<7, 7, 7>>}
Widths == {1, 2, 3, 4, 8}

\* a DataSafe with a passphrase has written a payload
InitHeader ==
    /\ \E r \in Rand, p \in Passphrases, x \in Payloads :
          /\ safe = EnvSetPassphrase(NewEnvelope(r), p)
          /\ stream = EnvWrite(safe, 1, x)
          /\ swritten = [pp |-> p, data |-> x]
    /\ sout = NoOut
    /\ KbIdle
    /\ UiIdle
    /\ MemIdle

\* Envelope.read of a changed copy of the written file by a fresh Envelope
ReadChanged(op, hdr, q, off, tag, width, value) ==
    /\ LET res == EnvRead(NewEnvelope(1), [stream EXCEPT !.hdr = hdr], q)
       IN  sout' = [op |-> op, pp |-> q, err |-> res.err, data |-> res.data,
                    warnings |-> ReadHeader(NewEnvelope(1), hdr).warnings,
                    off |-> off, tag |-> tag, width |-> width, value |-> value]
    /\ UNCHANGED <<safe, stream, swritten>>
    /\ UNCHANGED <<kbVars, uiVars, memVars, matchVars>>

\* read of the file with a chunk (tag, value) put in at a chunk boundary; a
\* written file is read once
ReadInserted(q, off, tag, value) ==
    /\ sout = NoOut
    /\ off \in Boundaries(MetaOf(stream.hdr), 0)
    /\ ReadChanged("read_inserted", Inserted(stream.hdr, off, tag, value),
                   q, off, tag, Len(value), value)

\* read of the file with the number of one chunk packed in another width
ReadRecoded(q, off, width) ==
    /\ sout = NoOut
    /\ off \in Boundaries(MetaOf(stream.hdr), 0) \ {Len(MetaOf(stream.hdr))}
    /\ ChunkTag(stream.hdr, off) \in UintTags
    /\ width < 4 => ChunkUint(stream.hdr, off) < Pow256(width)
    /\ ReadChanged("read_recoded", Recoded(stream.hdr, off, width),
                   q, off, ChunkTag(stream.hdr, off), width, <<>>)

\* the region without the chunks of the given tags
RECURSIVE DropTags(_, _)
DropTags(meta, tags) ==
    IF Len(meta) < 2 THEN meta
    ELSE LET n    == 2 + meta[2]
             rest == DropTags(SubSeq(meta, n + 1, Len(meta)), tags)
         IN  IF meta[1] \in tags THEN rest ELSE SubSeq(meta, 1, n) \o rest

\* the offset of the last chunk of the region
LastChunk(meta) ==
    LET starts == Boundaries(meta, 0) \ {Len(meta)}
    IN  CHOOSE off \in starts : \A o \in starts : o <= off

\* read of the file with the number of one chunk changed by delta, in the
\* width it was written in
ReadAltered(q, off, delta) ==
    /\ sout = NoOut
    /\ off \in Boundaries(MetaOf(stream.hdr), 0) \ {Len(MetaOf(stream.hdr))}
    /\ ChunkTag(stream.hdr, off) \in UintTags
    /\ LET meta  == MetaOf(stream.hdr)
           width == meta[off + 2]
           value == PackLE(ChunkUint(stream.hdr, off) + delta, width)
       IN  ReadChanged("read_altered",
                       WithMeta(SubSeq(meta, 1, off) \o WriteChunk(meta[off + 1], value)
                                   \o SubSeq(meta, off + 3 + width, Len(meta))),
                       q, off, meta[off + 1], width, value)

\* read of the file without its chunks of the given tags
ReadWithout(q, tags) ==
    /\ sout = NoOut
    /\ ReadChanged("read_without", WithMeta(DropTags(MetaOf(stream.hdr), tags)),
                   q, 0, 0, 0, <<>>)

\* read of the file with the last byte of MAGIC changed
ReadBadMagic(q) ==
    /\ sout = NoOut
    /\ ReadChanged("read_bad_magic", [stream.hdr EXCEPT ![4] = 1], q, 0, 0, 0, <<>>)

\* read of the file whose last chunk declares extra bytes more than the
\* region holds
ReadLengthened(q, extra) ==
    /\ sout = NoOut
    /\ LET off == LastChunk(MetaOf(stream.hdr))
       IN  ReadChanged("read_lengthened", [stream.hdr EXCEPT ![8 + off + 2] = @ + extra],
                       q, off, ChunkTag(stream.hdr, off), extra, <<>>)

\* read of the file whose region ends k bytes early, meta_size saying so
ReadCut(q, k) ==
    /\ sout = NoOut
    /\ LET meta == MetaOf(stream.hdr)
       IN  ReadChanged("read_cut", WithMeta(SubSeq(meta, 1, Len(meta) - k)),
                       q, Len(meta) - k, 0, k, <<>>)

NextHeader ==
    \/ \E q \in Passphrases, off \in 0..Len(stream.hdr), t \in NewTags, v \in NewValues :
           ReadInserted(q, off, t, v)
    \/ \E q \in Passphrases, off \in 0..Len(stream.hdr), w \in Widths :
           ReadRecoded(q, off, w)
    \/ \E q \in Passphrases, off \in 0..Len(stream.hdr), delta \in {1, 8} :
           ReadAltered(q, off, delta)
    \/ \E q \in Passphrases, tags \in (SUBSET {TAG_PLAIN_SIZE, TAG_CRC32}) \ {{}} :
           ReadWithout(q, tags)
    \/ \E q \in Passphrases : ReadBadMagic(q)
    \/ \E q \in Passphrases, extra \in {1, 4} : ReadLengthened(q, extra)
    \/ \E q \in Passphrases, k \in 1..5 : ReadCut(q, k)

SpecHeader == InitHeader /\ [][NextHeader]_vars

\* what Envelope.read gives for the file as it was written
Unchanged(q) == EnvRead(NewEnvelope(1), stream, q)

\* C19: a chunk with a tag in 9..255 and any length and value, put into the
\* metadata region of a valid file, changes nothing in what Envelope.read
\* gives: the chunk is skipped with a warning and the plaintext is the same.
C19_UnknownTagSkipped ==
    sout.op = "read_inserted" =>
        /\ sout.err = Unchanged(sout.pp).err
        /\ sout.data = Unchanged(sout.pp).data
        /\ sout.warnings = 1

\* C20: a uint chunk of the header re-encoded little-endian in 1, 2, 4 or 8
\* bytes reads as the same number and Envelope.read gives the same result;
\* in any other length the file is rejected.
C20_UintWidths ==
    sout.op = "read_recoded" =>
        IF sout.width \in {1, 2, 4, 8}
        THEN /\ sout.err = Unchanged(sout.pp).err
             /\ sout.data = Unchanged(sout.pp).data
             /\ sout.pp = swritten.pp => ~sout.err /\ sout.data = swritten.data
        ELSE sout.err

\* the data size in eight bytes, read with the right passphrase
C20_Witness ==
    /\ sout.op = "read_recoded" /\ sout.tag = TAG_DATA_SIZE /\ sout.width = 8
    /\ sout.pp = swritten.pp /\ ~sout.err /\ sout.data = swritten.data
    /\ Len(sout.data) > 0

C25_CorruptHeaderRejected ==
    /\ sout.op \in {"read_lengthened", "read_cut", "read_bad_magic"} =>
           sout.err /\ sout.data = <<>>
    /\ (/\ sout.op = "read_altered"
        /\ \/ sout.tag = TAG_CIPHER
           \/ sout.tag = TAG_COMPRESSION /\ UnpackLE(sout.value) \notin {NOOP_ID, DEFLATE_ID}
           \/ sout.tag = TAG_PWHASH /\ UnpackLE(sout.value) \notin
                   {PWHASH_SCRYPT, PWHASH_ARGON2I, PWHASH_ARGON2ID}) =>
           sout.err /\ sout.data = <<>>

(***************************************************************************)
(* A Keybox driven through its public API                                  *)
(***************************************************************************)
Str1(c) == << <<c>> >>

\* the fields cmd_add collects
AddSamples ==
    LET base == [c \in {"site", "user", "url", "tags", "note", "password"} |-> Str1("a")]
    IN  { base,
          [base EXCEPT !["site"] = Str1("b"), !["password"] = <<>>],
          [base EXCEPT !["note"] = <<>>, !["password"] = <<BSL, TAB, LF>>] }

\* the (column, value) pairs cmd_modify sets
SetSamples ==
    { <<"site", Str1("b")>>, <<"note", <<TAB>> >>, <<"password", Str1("b")>>,
      <<"password", <<>> >>, <<"mtime", Str1("b")>> }

Init ==
    /\ kb = NewKeybox(1)
    /\ file = NoStream
    /\ written = NoWritten
    /\ vout = NoVout
    /\ clock = 0
    /\ rng = 1
    /\ steps = 0
    /\ dump = NoDump
    /\ imp = NoImp
    /\ inbox = NoInbox
    /\ call = NoCall
    /\ saved = NoSaved
    /\ tagout = NoTags
    /\ EnvIdle
    /\ UiIdle
    /\ MemIdle

Returned(op, pp, r) ==
    /\ kb' = r.kb
    /\ vout' = [op |-> op, err |-> r.err, pp |-> pp]
    /\ steps' = steps + 1
    /\ UNCHANGED <<envVars, uiVars, memVars, matchVars>>

Done(op, pp, r) ==
    /\ Returned(op, pp, r)
    /\ UNCHANGED <<impVars, callVars>>

\* Keybox.set_passphrase
SetPassphrase(p) ==
    /\ steps < MaxSteps
    /\ Done("set_passphrase", p, set_passphrase(kb, p, rng + 1, rng + 1))
    /\ rng' = rng + 1 + Len(kb.records)
    /\ UNCHANGED <<file, written, clock>>

\* Keybox.add_record
AddRecord(kwargs) ==
    /\ steps < MaxSteps
    /\ Len(kb.records) < MaxRecords
    /\ Done("add_record", "", add_record(kb, kwargs, rng + 1, clock))
    /\ rng' = rng + 1
    /\ UNCHANGED <<file, written, clock>>

\* keybox[i][key] = value
ProxySet(i, key, value) ==
    /\ steps < MaxSteps
    /\ Done("set", "", SetItem(kb, i, key, value, rng + 1, clock))
    /\ rng' = rng + 1
    /\ UNCHANGED <<file, written, clock>>

\* keybox.delete_record(keybox[i])
DeleteRecord(i) ==
    /\ steps < MaxSteps
    /\ Done("delete", "", delete_record(KeyboxRecordInit(kb, i, clock), i))
    /\ UNCHANGED <<file, written, clock, rng>>

\* Keybox.write to a stream
Write ==
    /\ steps < MaxSteps
    /\ LET r == write(kb, rng + 1)
       IN  /\ Done("write", "", r)
           /\ file' = IF r.err THEN file ELSE r.file
           /\ written' = IF r.err THEN written
                         ELSE [pp |-> kb.envelope.key[2], records |-> kb.records,
                               plain |-> kb.plain, dec |-> Passwords(kb)]
    /\ rng' = rng + 1
    /\ UNCHANGED clock

\* Keybox.read of the written stream into the same Keybox
Read(q) ==
    /\ steps < MaxSteps
    /\ file # NoStream
    /\ Done("read", q, read(kb, file, q, written.plain))
    /\ UNCHANGED <<file, written, clock, rng>>

\* Keybox.read of the written stream into a new Keybox()
Reopen(q) ==
    /\ steps < MaxSteps
    /\ file # NoStream
    /\ Done("reopen", q, read(NewKeybox(rng + 1), file, q, written.plain))
    /\ rng' = rng + 1
    /\ UNCHANGED <<file, written, clock>>

\* the local clock advances
Tick ==
    /\ clock < MaxClock
    /\ clock' = clock + 1
    /\ UNCHANGED <<kb, file, written, vout, rng, steps, impVars, callVars>>
    /\ UNCHANGED <<envVars, uiVars, memVars, matchVars>>

Next ==
    \/ \E p \in Passphrases : SetPassphrase(p)
    \/ \E k \in AddSamples : AddRecord(k)
    \/ \E i \in 1..Len(kb.records), s \in SetSamples : ProxySet(i, s[1], s[2])
    \/ \E i \in 1..Len(kb.records) : DeleteRecord(i)
    \/ Write
    \/ \E q \in Passphrases : Read(q)
    \/ \E q \in Passphrases : Reopen(q)
    \/ Tick

Spec == Init /\ [][Next]_vars

NoTabLF(records) ==
    \A i \in 1..Len(records) : \A c \in DOMAIN records[i] \ {"password"} :
        TAB \notin Range(records[i][c]) /\ LF \notin Range(records[i][c])

\* the plaintext Envelope.write was given for the stream
Payload(f) == Decompress(DEFLATE_ID, f.body[4], -1)

\* C3: Keybox.set_passphrase completes in every vault state, records with an
\* empty password included, and every record's decrypted password is afterwards
\* (at once, and after write and read with the new passphrase) what it was.
C3_RotationKeepsPasswords ==
    /\ vout.op = "set_passphrase" => ~vout.err
    /\ (vout.op \in {"set_passphrase", "read", "reopen"} /\ ~vout.err) =>
          \A i \in 1..Len(kb.records) :
              GetItem(kb, i, "password") = [err |-> FALSE, value |-> kb.plain[i]]

\* C4: a vault whose non-password values hold no tab or LF, written and read
\* back with the same passphrase into a new vault, has the same records in the
\* same order, equal non-password columns and equal decrypted passwords; an
\* empty vault is written as the header line alone and reads back empty.
C4_WriteReadSameRecords ==
    (vout.op = "reopen" /\ vout.pp = written.pp /\ NoTabLF(written.records)) =>
        /\ ~vout.err
        /\ kb.columns = COLUMNS
        /\ Len(kb.records) = Len(written.records)
        /\ \A i \in 1..Len(kb.records) :
              /\ \A c \in ColSet(COLUMNS) \ {"password"} :
                    kb.records[i][c] = written.records[i][c]
              /\ GetItem(kb, i, "password") = written.dec[i]
        /\ written.records = <<>> => Payload(file) = format_header(COLUMNS)

C4_Witness ==
    /\ vout.op = "reopen" /\ vout.pp = written.pp /\ ~vout.err
    /\ NoTabLF(written.records)
    /\ \E i \in 1..Len(kb.records) :
          LF \in Range(GetItem(kb, i, "password").value)

\* C5: in every reachable state each stored password field is empty or a Base64
\* ciphertext that the vault's current envelope decrypts to the password last
\* set for the record; no plaintext password is stored or written.
C5_StoredPasswordsEncrypted ==
    \A i \in 1..Len(kb.records) :
        LET raw == kb.records[i]["password"]
        IN  \/ raw = <<>>
            \/ /\ IsBase64Box(raw)
               /\ ~DecryptBase64Fails(kb.envelope, raw)
               /\ DecryptBase64(kb.envelope, raw) = kb.plain[i]

(***************************************************************************)
(* Export and import of plain-text dumps                                   *)
(***************************************************************************)
Fields(site, rest, note, password) ==
    [c \in {"site", "user", "url", "tags", "note", "password"} |->
        IF c = "site" THEN site ELSE IF c = "note" THEN note
        ELSE IF c = "password" THEN password ELSE rest]

RECURSIVE VaultOf(_)
\* Keybox(), set_passphrase, then add_record of each of the fields in turn
VaultOf(adds) ==
    IF adds = <<>> THEN set_passphrase(NewKeybox(1), "secret", 1, 1).kb
    ELSE LET n == Len(adds)
         IN  add_record(VaultOf(SubSeq(adds, 1, n - 1)), adds[n], n, 0).kb

\* the vaults an import starts from, and the vaults whose dump it reads
SampleVaults ==
    LET plain  == Fields(Str1("a"), Str1("a"), Str1("a"), Str1("a"))
        edited == Fields(Str1("b"), Str1("a"), Str1("a"), Str1("b"))
        nopass == Fields(Str1("b"), Str1("b"), <<>>, <<>>)
        other  == Fields(Str1("c"), Str1("c"), Str1("c"), <<BSL>>)
        odd    == Fields(Str1("a"), Str1("a"), <<>>, <<TAB, LF>>)
    IN  { VaultOf(<<>>), VaultOf(<<plain>>), VaultOf(<<edited>>),
          VaultOf(<<nopass>>), VaultOf(<<other>>), VaultOf(<<odd>>),
          VaultOf(<<plain, edited>>), VaultOf(<<plain, plain>>),
          VaultOf(<<other, plain>>), VaultOf(<<nopass, edited>>) }

DumpOf(v) ==
    LET e == export_file(v)
    IN  [made |-> TRUE, err |-> e.err, text |-> e.text, of |-> v]

InitImport ==
    /\ kb \in SampleVaults
    /\ dump \in {DumpOf(v) : v \in SampleVaults}
    /\ file = NoStream
    /\ written = NoWritten
    /\ vout = NoVout
    /\ clock = 0
    /\ rng = MaxRecords + 1
    /\ steps = 0
    /\ imp = NoImp
    /\ inbox = NoInbox
    /\ call = NoCall
    /\ saved = NoSaved
    /\ tagout = NoTags
    /\ EnvIdle
    /\ UiIdle
    /\ MemIdle

\* Keybox.export_file(file, 'plain')
Export ==
    /\ steps < MaxImportSteps
    /\ dump' = DumpOf(kb)
    /\ Returned("export", "", [err |-> dump'.err, kb |-> kb])
    /\ UNCHANGED <<file, written, clock, rng, imp, inbox, callVars>>

\* Keybox.import_file(dump, 'plain', ...) with some resolve callback
Import ==
    /\ steps < MaxImportSteps
    /\ dump.made
    /\ \E r \in import_file(kb, dump.text, rng, clock) :
           /\ Returned("import", "", [err |-> r.err, kb |-> r.kb])
           /\ rng' = r.nonce
           /\ imp' = [before |-> kb, incoming |-> r.incoming, log |-> r.log,
                      n_total |-> r.n_total, n_new |-> r.n_new,
                      n_updated |-> r.n_updated]
    /\ UNCHANGED <<file, written, clock, dump, inbox, callVars>>

NextImport ==
    \/ Export
    \/ Import

SpecImport == InitImport /\ [][NextImport]_vars

\* C9: a vault whose non-password values hold no tab or LF, exported in plain
\* format and importing that dump at once, gets (N, 0, 0) for its N records,
\* whatever the passwords are; the resolve callback is not asked and the
\* records stay as they were.
C9_ExportImportIdempotent ==
    (vout.op = "import" /\ ~dump.err /\ dump.of = imp.before
        /\ NoTabLF(imp.before.records)) =>
        /\ ~vout.err
        /\ <<imp.n_total, imp.n_new, imp.n_updated>> = <<Len(imp.before.records), 0, 0>>
        /\ \A j \in 1..Len(imp.log) : imp.log[j].kind = "exact"
        /\ kb.records = imp.before.records

HowMany(log, kinds) == Cardinality({j \in 1..Len(log) : log[j].kind \in kinds})

\* C10: import_file returns (n_total, n_new, n_updated): n_total incoming
\* records, the vault grown by n_new records (the unmatched ones and the 'add'
\* resolutions), n_updated 'replace' resolutions, each of which left the chosen
\* local record with the incoming columns; every other local record is as it
\* was; a resolution other than replace, add and keep_local makes it raise.
C10_ImportCounts ==
    vout.op = "import" =>
        /\ HowMany(imp.log, Resolutions \ {"replace", "add", "keep_local"}) > 0
              => vout.err
        /\ ~vout.err =>
              /\ imp.n_total = Len(imp.incoming)
              /\ Len(imp.log) = Len(imp.incoming)
              /\ Len(kb.records) = Len(imp.before.records) + imp.n_new
              /\ imp.n_new = HowMany(imp.log, {"new", "add"})
              /\ imp.n_updated = HowMany(imp.log, {"replace"})
              /\ \A j \in 1..Len(imp.log) : imp.log[j].kind = "replace" =>
                    LET i == imp.log[j].rec
                    IN  /\ \A c \in ColSet(kb.columns) \ {"password"} :
                              kb.records[i][c] = imp.incoming[j][c]
                        /\ GetItem(kb, i, "password") =
                              [err |-> FALSE, value |-> imp.incoming[j]["password"]]
              /\ \A i \in 1..Len(imp.before.records) :
                    (\A j \in 1..Len(imp.log) :
                        ~(imp.log[j].kind = "replace" /\ imp.log[j].rec = i))
                        => kb.records[i] = imp.before.records[i]

C10_Witness ==
    /\ vout.op = "import" /\ ~vout.err
    /\ HowMany(imp.log, {"replace"}) = 1 /\ HowMany(imp.log, {"new"}) = 1
    /\ imp.n_updated = 1 /\ imp.n_new = 1 /\ imp.n_total = 2

(***************************************************************************)
(* Import of plain, JSON and keybox files                                  *)
(***************************************************************************)
\* record and columns restricted or extended, as a crafted file can hold them
Keep(rec, cols) == [c \in DOMAIN rec \cap cols |-> rec[c]]
Extra(rec) == [c \in DOMAIN rec \cup {"x"} |-> IF c = "x" THEN Str1("a") ELSE rec[c]]
NoPassword == <<"site", "user", "url", "tags", "mtime", "note">>
SiteUser == <<"site", "user">>
WithX == COLUMNS \o <<"x">>

\* a JSON file holding the list records
JsonFile(records) ==
    [format |-> "json", text |-> <<>>, records |-> records, stream |-> NoStream,
     pp |-> "", carries |-> UNION {DOMAIN records[i] : i \in 1..Len(records)}]

\* a plain file: the records formatted under the columns
PlainFile(records, columns) ==
    [format |-> "plain", text |-> format_file(records, columns), records |-> <<>>,
     stream |-> NoStream, pp |-> "", carries |-> ColSet(columns)]

\* a keybox file: the records of the vault v formatted under the columns and
\* sealed by the envelope of v; passphrase is what fn_passphrase will answer
KeyboxFile(v, columns, passphrase) ==
    [format |-> "keybox", text |-> <<>>, records |-> <<>>,
     stream |-> EnvWrite(v.envelope, MaxRecords + 2,
                         format_file([i \in 1..Len(v.records) |-> Extra(v.records[i])],
                                     columns)),
     pp |-> passphrase, carries |-> ColSet(columns)]

\* the files an import reads
SampleFiles ==
    LET plain  == Fields(Str1("a"), Str1("a"), Str1("a"), Str1("a"))
        edited == Fields(Str1("b"), Str1("a"), Str1("a"), Str1("b"))
        other  == Fields(Str1("c"), Str1("c"), Str1("c"), <<BSL>>)
        J(f)   == [c \in DOMAIN f \cup {"mtime"} |-> IF c = "mtime" THEN Fmt(0) ELSE f[c]]
        P(f)   == Extra(J(f))
        v1     == VaultOf(<<plain>>)
        v2     == VaultOf(<<other, edited>>)
    IN  { JsonFile(<<>>),
          JsonFile(<<J(plain)>>),
          JsonFile(<<J(edited), J(other)>>),
          JsonFile(<<Keep(J(plain), ColSet(NoPassword))>>),
          JsonFile(<<Keep(J(edited), ColSet(COLUMNS) \ {"note"})>>),
          JsonFile(<<Keep(J(other), ColSet(SiteUser))>>),
          JsonFile(<<Extra(J(plain))>>),
          JsonFile(<<J(plain), Extra(J(plain))>>),
          JsonFile(<<J(edited), Extra(J(other))>>),
          PlainFile(<<P(plain)>>, COLUMNS),
          PlainFile(<<P(edited), P(other)>>, COLUMNS),
          PlainFile(<<P(plain)>>, NoPassword),
          PlainFile(<<P(edited), P(other)>>, SiteUser),
          PlainFile(<<P(plain)>>, WithX),
          PlainFile(<<>>, WithX),
          KeyboxFile(v1, COLUMNS, "secret"),
          KeyboxFile(v2, COLUMNS, "secret"),
          KeyboxFile(v2, COLUMNS, "secret2"),
          KeyboxFile(v1, NoPassword, "secret"),
          KeyboxFile(v2, SiteUser, "secret"),
          KeyboxFile(v1, WithX, "secret") }

InitInbox ==
    /\ kb \in SampleVaults
    /\ inbox \in SampleFiles
    /\ file = NoStream
    /\ written = NoWritten
    /\ vout = NoVout
    /\ clock = 0
    /\ rng = MaxRecords + 3
    /\ steps = 0
    /\ dump = NoDump
    /\ imp = NoImp
    /\ call = NoCall
    /\ saved = NoSaved
    /\ tagout = NoTags
    /\ EnvIdle
    /\ UiIdle
    /\ MemIdle

\* the outcomes of Keybox.import_file(inbox, format, ...)
ImportOutcomes ==
    IF inbox.format = "json" THEN import_json(kb, inbox.records, rng, clock)
    ELSE IF inbox.format = "plain" THEN import_file(kb, inbox.text, rng, clock)
    ELSE import_keybox(kb, inbox.stream, inbox.pp, NRand, rng, clock)

\* Keybox.import_file of the file in the inbox, with some resolve callback
ImportInbox ==
    /\ steps < MaxImportSteps
    /\ \E r \in ImportOutcomes :
           /\ Returned("import_inbox", inbox.pp, [err |-> r.err, kb |-> r.kb])
           /\ rng' = r.nonce
           /\ imp' = [before |-> kb, incoming |-> r.incoming, log |-> r.log,
                      n_total |-> r.n_total, n_new |-> r.n_new,
                      n_updated |-> r.n_updated]
    /\ UNCHANGED <<file, written, clock, dump, inbox, callVars>>

\* the clock of the importing process advances
InboxTick ==
    /\ clock < MaxClock
    /\ clock' = clock + 1
    /\ UNCHANGED <<envVars, uiVars, memVars, matchVars, kb, file, written, vout, rng, steps, impVars, callVars>>

NextInbox ==
    \/ ImportInbox
    \/ InboxTick

SpecInbox == InitInbox /\ [][NextInbox]_vars

\* C11: for every import format, when the incoming header or any incoming
\* record carries a column that is not in the vault's schema, import_file
\* raises and the records, the column list and the dirty flag are as they were
\* before the call.
C11_UnknownColumnRejected ==
    (vout.op = "import_inbox" /\ ~(inbox.carries \subseteq ColSet(imp.before.columns))) =>
        /\ vout.err
        /\ kb.records = imp.before.records
        /\ kb.columns = imp.before.columns
        /\ kb.modified = imp.before.modified

\* C12: for every import format, a readable file whose header and records
\* carry only columns of the vault, any of them missing, is imported without
\* error whatever the resolve callback answers among replace, add and
\* keep_local.
C12_SubsetColumnsAccepted ==
    (/\ vout.op = "import_inbox"
     /\ inbox.carries \subseteq ColSet(imp.before.columns)
     /\ ~(inbox.format = "keybox" /\ inbox.pp # "secret")
     /\ \A j \in 1..Len(imp.log) : imp.log[j].kind # "unknown") =>
        ~vout.err

(***************************************************************************)
(* Records of a Keybox: add, set through a proxy, delete, with the call    *)
(* and the last read or written state kept as history                      *)
(***************************************************************************)
WithMtime(fields, mtime) ==
    [c \in DOMAIN fields \cup {"mtime"} |-> IF c = "mtime" THEN mtime ELSE fields[c]]

\* records without password, with password, with an mtime of its own (as an
\* import or a caller of add_record supplies it), with a LF in the note
RowN == Fields(Str1("b"), Str1("b"), <<>>, <<>>)
RowP == Fields(Str1("a"), Str1("a"), Str1("a"), Str1("a"))
RowM == WithMtime(RowP, Fmt(9))
RowT == Fields(Str1("b"), Str1("b"), <<LF>>, <<>>)

RowVaults == { VaultOf(<<>>), VaultOf(<<RowN, RowP>>), VaultOf(<<RowM>>) }

RowAddSamples == {RowN, RowM, RowT}

RowSetSamples ==
    { <<"note", <<TAB>> >>, <<"password", Str1("b")>>, <<"mtime", Str1("b")>> }

\* a JSON file with one record, similar to RowP
RowFile == << WithMtime(Fields(Str1("c"), Str1("a"), Str1("a"), Str1("a")), Fmt(9)) >>

PassphraseOf(k) == IF k.envelope.key = NoKey THEN "" ELSE k.envelope.key[2]

Snapshot(k) == [records |-> k.records, passphrase |-> PassphraseOf(k)]

InitRows ==
    /\ kb \in RowVaults
    /\ file = NoStream
    /\ written = NoWritten
    /\ vout = NoVout
    /\ clock = 0
    /\ rng = MaxRows + 1
    /\ steps = 0
    /\ dump = NoDump
    /\ imp = NoImp
    /\ inbox = NoInbox
    /\ call = NoCall
    /\ saved = NoSaved
    /\ tagout = NoTags
    /\ EnvIdle
    /\ UiIdle
    /\ MemIdle

\* a call on the Keybox returns r; proxied is the Keybox once the proxy
\* keybox[i] is made, before the call proper
RowReturned(op, pp, r, i, key, value, kwargs) ==
    /\ steps < MaxRowSteps
    /\ Returned(op, pp, r)
    /\ call' = [op |-> op, i |-> i, key |-> key, value |-> value, kwargs |-> kwargs,
                before |-> kb,
                proxied |-> IF i \in 1..Len(kb.records)
                            THEN KeyboxRecordInit(kb, i, clock) ELSE kb]
    /\ saved' = IF op \in {"read", "write"} /\ ~r.err THEN Snapshot(r.kb) ELSE saved
    /\ UNCHANGED tagout
    /\ UNCHANGED impVars

\* Keybox.set_passphrase
RowSetPassphrase(p) ==
    /\ RowReturned("set_passphrase", p, set_passphrase(kb, p, rng + 1, rng + 1),
                   0, "", <<>>, <<>>)
    /\ rng' = rng + 1 + Len(kb.records)
    /\ UNCHANGED <<file, written, clock>>

\* Keybox.add_record(**kwargs)
RowAdd(kwargs) ==
    /\ Len(kb.records) < MaxRows
    /\ RowReturned("add_record", "", add_record(kb, kwargs, rng + 1, clock),
                   0, "", <<>>, kwargs)
    /\ rng' = rng + 1
    /\ UNCHANGED <<file, written, clock>>

\* keybox[i][key] = value
RowSet(i, key, value) ==
    /\ RowReturned("set", "", SetItem(kb, i, key, value, rng + 1, clock),
                   i, key, value, <<>>)
    /\ rng' = rng + 1
    /\ UNCHANGED <<file, written, clock>>

\* keybox.delete_record(keybox[i])
RowDelete(i) ==
    /\ RowReturned("delete", "", delete_record(KeyboxRecordInit(kb, i, clock), i),
                   i, "", <<>>, <<>>)
    /\ UNCHANGED <<file, written, clock, rng>>

\* Keybox.write to a stream
RowWrite ==
    /\ LET r == write(kb, rng + 1)
       IN  /\ RowReturned("write", "", r, 0, "", <<>>, <<>>)
           /\ file' = IF r.err THEN file ELSE r.file
           /\ written' = IF r.err THEN written
                         ELSE [pp |-> kb.envelope.key[2], records |-> kb.records,
                               plain |-> kb.plain, dec |-> Passwords(kb)]
    /\ rng' = rng + 1
    /\ UNCHANGED clock

\* Keybox.read of the written stream, the callback giving the passphrase q
RowRead(q) ==
    /\ file # NoStream
    /\ RowReturned("read", q, read(kb, file, q, written.plain), 0, "", <<>>, <<>>)
    /\ UNCHANGED <<file, written, clock, rng>>

\* Keybox.import_file(RowFile, 'json', ...) with some resolve callback
RowImport ==
    /\ Len(kb.records) < MaxRows
    /\ \E r \in import_json(kb, RowFile, rng, clock) :
           /\ RowReturned("import", "", [err |-> r.err, kb |-> r.kb], 0, "", <<>>, <<>>)
           /\ rng' = r.nonce
    /\ UNCHANGED <<file, written, clock>>

\* the local clock advances
RowTick ==
    /\ clock < MaxClock
    /\ clock' = clock + 1
    /\ UNCHANGED <<envVars, uiVars, memVars, matchVars, kb, file, written, vout, rng, steps, impVars, callVars>>

NextRows ==
    \/ RowSetPassphrase("secret2")
    \/ \E k \in RowAddSamples : RowAdd(k)
    \/ \E i \in 1..Len(kb.records), s \in RowSetSamples : RowSet(i, s[1], s[2])
    \/ \E i \in 1..Len(kb.records) : RowDelete(i)
    \/ RowWrite
    \/ \E q \in Passphrases : RowRead(q)
    \/ RowImport
    \/ RowTick

SpecRows == InitRows /\ [][NextRows]_vars

\* C27: when Keybox.set_passphrase raises during the re-encryption, the Keybox
\* is as before the call: the same envelope and key, the same stored password
\* of every record, the same dirty flag.
C27_FailedRotationUndone ==
    (call.op = "set_passphrase" /\ vout.err) =>
        /\ kb.envelope = call.before.envelope
        /\ kb.records = call.before.records
        /\ kb.modified = call.before.modified

\* C28: when Keybox.read fails, the records, columns, widths and dirty flag
\* and the key, salt, KDF and compression settings of the envelope are as
\* before the call, so the records held still decrypt and check_passphrase
\* answers as before.
C28_FailedReadUndone ==
    (call.op = "read" /\ vout.err) =>
        /\ kb.records = call.before.records
        /\ kb.columns = call.before.columns
        /\ kb.widths = call.before.widths
        /\ kb.modified = call.before.modified
        /\ kb.envelope = call.before.envelope
        /\ Passwords(kb) = Passwords(call.before)
        /\ \A p \in Passphrases :
               EnvCheckPassphrase(kb.envelope, p) = EnvCheckPassphrase(call.before.envelope, p)

\* C26: after read, add_record, a set through a proxy, delete_record or
\* import_file, the stored width of every column is 2 more than the longest
\* value of that column among the records now held, and 2 without records.
C26_WidthsExact ==
    (call.op \in {"read", "add_record", "set", "delete", "import"} /\ ~vout.err) =>
        \A c \in ColSet(kb.columns) : kb.widths[c] = recompute_widths(kb).widths[c]

\* C13: after any sequence of add_record, proxy sets, delete_record,
\* set_passphrase and import_file, modified() is True whenever the records or
\* the passphrase differ from what they were at the last successful read or
\* write, and a successful read or write leaves modified() False.
C13_ModifiedTracksChanges ==
    /\ (kb.records # saved.records \/ PassphraseOf(kb) # saved.passphrase) => kb.modified
    /\ (call.op \in {"read", "write"} /\ ~vout.err) => ~kb.modified

\* C14: delete_record(keybox[i]) removes the i-th record and nothing else, the
\* others keeping their order, also when another record has the same column
\* values; it sets the dirty flag.
C14_DeleteRemovesThatRecord ==
    (call.op = "delete" /\ ~vout.err) =>
        /\ kb.records = RemoveAt(call.proxied.records, call.i)
        /\ kb.modified

\* C15: keybox[i]['mtime'] = value raises and leaves the columns of the record
\* (mtime too), the column widths and the dirty flag as they were.
C15_MtimeSetRejected ==
    (call.op = "set" /\ call.key = "mtime") =>
        /\ vout.err
        /\ kb.records = call.proxied.records
        /\ kb.widths = call.proxied.widths
        /\ kb.modified = call.proxied.modified
        /\ call.before.records[call.i]["mtime"] # <<>> => kb.records = call.before.records

\* a rejected set of mtime on a record whose mtime is not the current time
C15_Witness ==
    /\ call.op = "set" /\ call.key = "mtime" /\ vout.err
    /\ call.before.records[call.i]["mtime"] = Fmt(9)
    /\ kb.records[call.i]["mtime"] = Fmt(9)

\* str <= str
RECURSIVE StrLeq(_, _)
StrLeq(a, b) ==
    IF a = <<>> THEN TRUE
    ELSE IF b = <<>> THEN FALSE
    ELSE IF SymCode(a[1]) # SymCode(b[1]) THEN SymCode(a[1]) < SymCode(b[1])
    ELSE StrLeq(Tail(a), Tail(b))

\* C16: after keybox[i][c] = value with c other than mtime, the mtime of the
\* record is >= its mtime before the set, whatever way the record came into
\* the Keybox; the clock never goes back.
C16_MtimeNeverDecreases ==
    (call.op = "set" /\ call.key # "mtime" /\ ~vout.err) =>
        StrLeq(call.before.records[call.i]["mtime"], kb.records[call.i]["mtime"])

HasTabLF(value) == TAB \in Range(value) \/ LF \in Range(value)

\* C17: a value with a tab or LF given to add_record or to the proxy setter for
\* a column other than password is rejected and the records stay as they
\* were, so no stored non-password value holds a tab or LF.
C17_TabLFRejected ==
    /\ NoTabLF(kb.records)
    /\ (call.op = "set" /\ call.key # "password" /\ HasTabLF(call.value)) =>
           vout.err /\ kb.records = call.proxied.records
    /\ (call.op = "add_record"
            /\ \E c \in DOMAIN call.kwargs \ {"password"} : HasTabLF(call.kwargs[c])) =>
           vout.err /\ kb.records = call.before.records

(***************************************************************************)
(* Tags of a Keybox                                                        *)
(***************************************************************************)
\* str.lower
Lower(text) == [i \in 1..Len(text) |-> IF text[i] = <<"A">> THEN <<"a">> ELSE text[i]]

\* str.startswith
StartsWith(text, prefix) ==
    Len(prefix) <= Len(text) /\ SubSeq(text, 1, Len(prefix)) = prefix

\* str.split(): the words between runs of whitespace, cur the word being read
RECURSIVE Words(_, _)
Words(text, cur) ==
    LET done == IF cur = <<>> THEN {} ELSE {cur}
    IN  IF text = <<>> THEN done
        ELSE IF text[1] \in {<<" ">>, TAB, LF} THEN done \cup Words(Tail(text), <<>>)
        ELSE Words(Tail(text), Append(cur, text[1]))

\* sorted(set of str)
RECURSIVE Sorted(_)
Sorted(S) ==
    IF S = {} THEN <<>>
    ELSE LET least == CHOOSE t \in S : \A u \in S : StrLeq(t, u)
         IN  <<least>> \o Sorted(S \ {least})

\* the set all_tags of Keybox.get_tags
AllTags(k) == UNION {Words(k.records[i]["tags"], <<>>) : i \in 1..Len(k.records)}

\* Keybox.get_tags(start_text); given is FALSE for start_text=None
get_tags(k, given, start_text) ==
    LET start == Lower(IF given THEN start_text ELSE <<>>)
    IN  SelectSeq(Sorted(AllTags(k)), LAMBDA t : StartsWith(t, start))

TagStrings == SeqsUpTo({<<"a">>, <<"A">>, <<" ">>}, MaxTagLen)
Prefixes == SeqsUpTo({<<"a">>, <<"A">>}, MaxTagLen)

WithTags(fields, tags) == [fields EXCEPT !["tags"] = tags]

\* vaults of up to two records with tags of their own
TagVaults ==
    {VaultOf(<<>>)}
        \cup {VaultOf(<<WithTags(RowN, t)>>) : t \in TagStrings}
        \cup {VaultOf(<<WithTags(RowN, t), WithTags(RowP, u)>>) : t, u \in TagStrings}

InitTags ==
    /\ kb \in TagVaults
    /\ file = NoStream
    /\ written = NoWritten
    /\ vout = NoVout
    /\ clock = 0
    /\ rng = MaxRows + 1
    /\ steps = 0
    /\ dump = NoDump
    /\ imp = NoImp
    /\ inbox = NoInbox
    /\ call = NoCall
    /\ saved = NoSaved
    /\ tagout = NoTags
    /\ EnvIdle
    /\ UiIdle
    /\ MemIdle

Asked(given, start_text) ==
    /\ tagout' = [asked |-> TRUE, given |-> given, start_text |-> start_text,
                  result |-> get_tags(kb, given, start_text)]
    /\ UNCHANGED <<envVars, uiVars, memVars, matchVars, kb, file, written, vout, clock, rng, steps,
                   impVars, call, saved>>

\* keybox.get_tags(start_text)
GetTags(start_text) == Asked(TRUE, start_text)

\* keybox.get_tags()
GetAllTags == Asked(FALSE, <<>>)

NextTags ==
    \/ \E p \in Prefixes : GetTags(p)
    \/ GetAllTags

SpecTags == InitTags /\ [][NextTags]_vars

\* C18: get_tags(s) returns the sorted, duplicate-free list of exactly the
\* tags of the records that start with s, for a prefix s of any letter case;
\* get_tags() returns the whole sorted tag set.
C18_TagsByPrefix ==
    tagout.asked =>
        /\ \A i, j \in 1..Len(tagout.result) :
               i < j => /\ StrLeq(tagout.result[i], tagout.result[j])
                        /\ tagout.result[i] # tagout.result[j]
        /\ Range(tagout.result) =
               {t \in AllTags(kb) : StartsWith(t, tagout.start_text)}

(***************************************************************************)
(* KeyboxUI (keybox/ui.py): processes that open, write and close one       *)
(* keybox file <path> with its sibling <path>.tmp.  A step is one system   *)
(* call on the shared directory with the process's own work before it.     *)
(* A file holds nothing ("empty"), the beginning of the output of          *)
(* Keybox.write ("partial"), all of it ("complete"), or its end behind a   *)
(* hole ("holed"); "free" marks an inode not in use.                       *)
(***************************************************************************)
InitUI ==
    /\ fs \in {[path |-> 0, tmp |-> 0], [path |-> 1, tmp |-> 0]}
    /\ disk = [i \in Inodes |-> IF i = fs.path THEN "complete" ELSE "free"]
    /\ lockOwner = [i \in Inodes |-> 0]
    /\ proc = [p \in Procs |-> NewUI]
    /\ opens = 0
    /\ EnvIdle
    /\ KbIdle
    /\ MemIdle

\* the kernel drops an inode no name and no open file refers to, and the
\* locks on it
InUse(f, pr) == {f.path, f.tmp} \cup {pr[p].wfile : p \in Procs}

Settle(f, d, l, pr) ==
    /\ fs' = f
    /\ proc' = pr
    /\ disk' = [i \in Inodes |-> IF i \in InUse(f, pr) THEN d[i] ELSE "free"]
    /\ lockOwner' = [i \in Inodes |-> IF i \in InUse(f, pr) THEN l[i] ELSE 0]
    /\ UNCHANGED <<envVars, kbVars, memVars, matchVars>>

\* KeyboxUI.readonly
readonly(p) == proc[p].wfile = 0

\* what BufferedWriter.close leaves in the file of process p: the buffered
\* output goes behind what was written before
Flushed(p) ==
    IF ~proc[p].buffered THEN disk[proc[p].wfile]
    ELSE IF ~proc[p].spilled THEN "complete"
    ELSE IF disk[proc[p].wfile] = "partial" THEN "complete" ELSE "holed"

\* the end of a run: an exception leaves the interpreter to close the file
Ended(p, crash) == [NewUI EXCEPT !.pc = "done", !.crash = crash]

\* KeyboxUI.open up to _open_tmp, in a new run of the program: _open_existing
\* reads the file as it is now, accepted says whether the passphrase typed is
\* the right one (for a new file: whether it was typed the same twice)
UiOpen(p, ro, accepted) ==
    /\ proc[p].pc \in {"idle", "done"}
    /\ opens < MaxOpens
    /\ opens' = opens + 1
    /\ LET me == [NewUI EXCEPT !.then = "prompt"]
       IN  Settle(fs, disk, lockOwner,
             [proc EXCEPT ![p] =
                IF fs.path # 0
                THEN IF ~accepted \/ disk[fs.path] # "complete" THEN Ended(p, "error")
                     ELSE IF ro THEN [me EXCEPT !.pc = "prompt"]
                     ELSE [me EXCEPT !.pc = "open_tmp"]
                ELSE IF ro \/ ~accepted THEN Ended(p, "none")
                ELSE [me EXCEPT !.pc = "open_tmp", !.modified = TRUE,
                                !.creating = TRUE]])

\* KeyboxUI._open_tmp, the open('wb'): creates the file or truncates it
UiOpenTmp(p) ==
    /\ proc[p].pc = "open_tmp"
    /\ LET ino == IF fs.tmp # 0 THEN fs.tmp
                  ELSE CHOOSE i \in Inodes :
                          /\ disk[i] = "free"
                          /\ \A j \in Inodes : disk[j] = "free" => i <= j
       IN  Settle([fs EXCEPT !.tmp = ino], [disk EXCEPT ![ino] = "empty"], lockOwner,
                  [proc EXCEPT ![p].wfile = ino, ![p].pc = "lock"])
    /\ UNCHANGED opens

\* KeyboxUI._open_tmp, the lock_file: lockf(LOCK_EX | LOCK_NB), and on failure
\* _close_tmp(unlink=False); open gives up a new file it cannot lock
UiLockTmp(p) ==
    /\ proc[p].pc = "lock"
    /\ IF lockOwner[proc[p].wfile] \in {0, p}
       THEN Settle(fs, disk, [lockOwner EXCEPT ![proc[p].wfile] = p],
                   [proc EXCEPT ![p].pc = "prompt", ![p].creating = FALSE,
                                ![p].leased = IF proc[p].stale THEN "stale" ELSE "fresh"])
       ELSE Settle(fs, disk, lockOwner,
                   [proc EXCEPT ![p] =
                       IF proc[p].creating THEN Ended(p, "none")
                       ELSE [@ EXCEPT !.wfile = 0, !.pc = "prompt"]])
    /\ UNCHANGED opens

\* cmd_add, cmd_modify, cmd_delete, cmd_reset: @with_write_access
UiEdit(p) ==
    /\ proc[p].pc = "prompt"
    /\ Settle(fs, disk, lockOwner,
              [proc EXCEPT ![p].modified = IF readonly(p) THEN @ ELSE TRUE])
    /\ UNCHANGED opens

\* cmd_import: import_file touches the Keybox when the file imported holds a
\* record the Keybox has not (n_new + n_updated > 0)
UiImport(p, differs) ==
    /\ proc[p].pc = "prompt"
    /\ Settle(fs, disk, lockOwner,
              [proc EXCEPT ![p].modified = IF differs THEN TRUE ELSE @])
    /\ UNCHANGED opens

\* cmd_write: @with_write_access, then _write and _open_tmp if modified
UiCmdWrite(p) ==
    /\ proc[p].pc = "prompt"
    /\ Settle(fs, disk, lockOwner,
              [proc EXCEPT ![p] =
                  IF ~readonly(p) /\ proc[p].modified
                  THEN [@ EXCEPT !.pc = "write", !.then = "open_tmp"]
                  ELSE @])
    /\ UNCHANGED opens

\* KeyboxUI.close(write=save, ask_write): the assertion in read-only mode,
\* else _write or _close_tmp; agreed is ask_write is None or the answer to it.
\* A write declined at the prompt returns at once and leaves the file to
\* __del__
UiClose(p, save, agreed) ==
    /\ proc[p].pc = "prompt"
    /\ Settle(fs, disk, lockOwner,
              [proc EXCEPT ![p] =
                  IF readonly(p)
                  THEN Ended(p, IF proc[p].modified THEN "assert" ELSE "none")
                  ELSE IF proc[p].modified /\ save
                  THEN IF agreed
                       THEN [@ EXCEPT !.pc = "write", !.then = "done",
                                      !.closing = "running"]
                       ELSE [@ EXCEPT !.pc = "del", !.closing = "declined"]
                  ELSE [@ EXCEPT !.pc = "close_tmp", !.closing = "running"]])
    /\ UNCHANGED opens

\* KeyboxUI.__del__ at the end of the run: _close_tmp if the file is open
UiDel(p) ==
    /\ proc[p].pc = "del"
    /\ Settle(fs, disk, lockOwner,
              [proc EXCEPT ![p].pc = "close_tmp", ![p].closing = "no"])
    /\ UNCHANGED opens

\* KeyboxUI._write, the Keybox.write(wfile): the output stays in the buffer of
\* the file object, but for the part that did not fit it (spill)
UiWriteTmp(p, spill) ==
    /\ proc[p].pc = "write"
    /\ Settle(fs, [disk EXCEPT ![proc[p].wfile] = IF spill THEN "partial" ELSE @],
              lockOwner,
              [proc EXCEPT ![p].buffered = TRUE, ![p].spilled = spill,
                           ![p].modified = FALSE, ![p].pc = "rename"])
    /\ UNCHANGED opens

\* KeyboxUI._write, the replace of <path> by whatever <path>.tmp names now;
\* FileNotFoundError ends the run, and the interpreter closes the file
UiRename(p) ==
    /\ proc[p].pc = "rename"
    /\ IF fs.tmp = 0
       THEN Settle(fs, [disk EXCEPT ![proc[p].wfile] = Flushed(p)],
                   [lockOwner EXCEPT ![proc[p].wfile] = IF @ = p THEN 0 ELSE @],
                   [proc EXCEPT ![p] = Ended(p, "error")])
       ELSE Settle([path |-> fs.tmp, tmp |-> 0], disk, lockOwner,
                   [q \in Procs |->
                       IF q = p
                       THEN [proc[q] EXCEPT !.pc = "close_renamed", !.stale = FALSE]
                       ELSE IF proc[q].pc \in {"idle", "done"} THEN proc[q]
                       ELSE [proc[q] EXCEPT !.stale = TRUE]])
    /\ UNCHANGED opens

\* KeyboxUI._write, the _close_tmp(unlink=False): the buffer is written out,
\* the lock released; cmd_write goes on to _open_tmp
UiCloseRenamed(p) ==
    /\ proc[p].pc = "close_renamed"
    /\ Settle(fs, [disk EXCEPT ![proc[p].wfile] = Flushed(p)],
              [lockOwner EXCEPT ![proc[p].wfile] = IF @ = p THEN 0 ELSE @],
              [proc EXCEPT ![p] =
                  IF proc[p].then = "done"
                  THEN [Ended(p, "none") EXCEPT !.closing = "commit"]
                  ELSE [@ EXCEPT !.wfile = 0, !.buffered = FALSE, !.spilled = FALSE,
                                 !.pc = "open_tmp"]])
    /\ UNCHANGED opens

\* KeyboxUI._close_tmp, the close: releases the lock
UiCloseTmp(p) ==
    /\ proc[p].pc = "close_tmp"
    /\ Settle(fs, [disk EXCEPT ![proc[p].wfile] = Flushed(p)],
              [lockOwner EXCEPT ![proc[p].wfile] = IF @ = p THEN 0 ELSE @],
              [proc EXCEPT ![p].wfile = 0, ![p].buffered = FALSE,
                           ![p].spilled = FALSE, ![p].pc = "unlink"])
    /\ UNCHANGED opens

\* KeyboxUI._close_tmp, the unlink of whatever <path>.tmp names now
UiUnlink(p) ==
    /\ proc[p].pc = "unlink"
    /\ Settle([fs EXCEPT !.tmp = 0], disk, lockOwner,
              [proc EXCEPT ![p] =
                  [Ended(p, IF fs.tmp = 0 THEN "error" ELSE "none") EXCEPT
                      !.closing = IF fs.tmp # 0 /\ proc[p].closing = "running"
                                  THEN "abort" ELSE "no"]])
    /\ UNCHANGED opens

NextUI ==
    \E p \in Procs :
        \/ \E ro \in BOOLEAN, accepted \in BOOLEAN : UiOpen(p, ro, accepted)
        \/ UiOpenTmp(p)
        \/ UiLockTmp(p)
        \/ UiEdit(p)
        \/ \E differs \in BOOLEAN : UiImport(p, differs)
        \/ UiCmdWrite(p)
        \/ \E save \in BOOLEAN, agreed \in BOOLEAN : UiClose(p, save, agreed)
        \/ UiDel(p)
        \/ \E spill \in BOOLEAN : UiWriteTmp(p, spill)
        \/ UiRename(p)
        \/ UiCloseRenamed(p)
        \/ UiCloseTmp(p)
        \/ UiUnlink(p)

SpecUI == InitUI /\ [][NextUI]_vars

\* a process in write mode: it has the tmp file open and holds the lock on it
WriteMode(p) == ~readonly(p) /\ lockOwner[proc[p].wfile] = p

\* C6: whatever the interleaving of processes that open, write and close the
\* same path, at most one of them at a time is in write mode (has an open,
\* locked tmp file).
C6_OneWriter ==
    \A p \in Procs, q \in Procs : (WriteMode(p) /\ WriteMode(q)) => p = q

\* C7: at every instant the file at <path>, if there is one, holds the
\* complete output of a Keybox.write (the one committed before or a new one),
\* never nothing or a part of it.
C7_PathComplete ==
    fs.path # 0 => disk[fs.path] = "complete"

\* C24: once close() has returned in write mode, whether the Keybox was
\* modified or not, with write True or False and the question answered yes or
\* no, the tmp file has been renamed onto <path> or closed and unlinked, and
\* _wfile is None.
C24_CloseEndsLease ==
    \A p \in Procs :
        proc[p].closing \in {"commit", "abort", "declined"} =>
            /\ proc[p].closing \in {"commit", "abort"}
            /\ proc[p].wfile = 0

\* C29: a process that runs _open_tmp while another process holds the lock on
\* <path>.tmp (so that its lock_file fails) leaves that file as it is: the
\* name still refers to it and what it holds is not truncated or written.
C29_LoserLeavesTmp ==
    [][\A p \in Procs :
          (/\ proc[p].pc \in {"open_tmp", "lock"}
           /\ proc'[p] # proc[p]
           /\ fs.tmp # 0
           /\ lockOwner[fs.tmp] \notin {0, p}) =>
              /\ fs'.tmp = fs.tmp
              /\ disk'[fs.tmp] = disk[fs.tmp]]_vars

\* C30: a process that commits a write (renames its tmp file onto <path>)
\* loaded its Keybox from the content <path> had when it locked the tmp file:
\* no process replaces what another has committed after the first read the
\* file.
C30_NoLostUpdate ==
    \A p \in Procs : proc[p].pc = "close_renamed" => proc[p].leased # "stale"

\* C8: a KeyboxUI in read-only mode never has a modified Keybox, whatever the
\* commands given to it, so that the assertion of close() holds.
C8_ReadOnlyUnmodified ==
    \A p \in Procs :
        /\ (proc[p].pc = "prompt" /\ readonly(p)) => ~proc[p].modified
        /\ proc[p].crash # "assert"

(***************************************************************************)
(* The memory of a process that holds a Keybox: bytes objects, the keys    *)
(* Envelopes refer to, and SecureMemory wrappers                           *)
(***************************************************************************)
\* the bytes nacl.pwhash.kdf returns, abstracted to bytes that name the
\* passphrase and the salt; no byte of them is zero
KeyBytes(key) ==
    <<IF key[2] = "secret" THEN 1 ELSE 2, key[3][1]>>

\* memory_clear: memset(addr, 0, len)
memory_clear(data) == [i \in DOMAIN data |-> 0]

IsZero(data) == \A i \in DOMAIN data : data[i] = 0

\* a bytes object made at address a
Alloc(h, a, data, wrapped) ==
    [h EXCEPT ![a] = [state |-> "live", data |-> data, wrapped |-> wrapped]]

\* the last reference to the object at a goes away: CPython returns the block
\* to the allocator, the bytes of the object stay as they were
Dealloc(h, a) ==
    IF a = 0 THEN h ELSE [h EXCEPT ![a].state = "freed"]

\* the bytes some variable of the test refers to
Plain == {<<7>>, <<7, 8>>}

InitMemory ==
    /\ EnvIdle
    /\ UiIdle
    /\ MemIdle
    /\ kb \in {NewKeybox(r) : r \in Rand}
    /\ file = NoStream
    /\ written = NoWritten
    /\ vout = NoVout
    /\ clock = 0
    /\ rng = 1
    /\ steps = 0
    /\ dump = NoDump
    /\ imp = NoImp
    /\ inbox = NoInbox
    /\ call = NoCall
    /\ saved = NoSaved
    /\ tagout = NoTags

\* Keybox.set_passphrase: a new Envelope derives its key, Envelope.set_passphrase
\* stores the bytes kdf returned as they are, and the Envelope held before is
\* dropped when the call returns
MemSetPassphrase(p, r, a) ==
    /\ heap[a].state = "unused"
    /\ LET res == set_passphrase(kb, p, r, rng + 1)
       IN  /\ kb' = res.kb
           /\ vout' = [op |-> "set_passphrase", err |-> res.err, pp |-> p]
           /\ heap' = Dealloc(Alloc(heap, a, KeyBytes(res.kb.envelope.key), "no"), held)
    /\ held' = a
    /\ discarded' = IF held = 0 THEN discarded ELSE discarded \cup {held}
    /\ UNCHANGED <<names, file, written, clock, rng, steps, impVars, callVars>>
    /\ UNCHANGED <<envVars, uiVars, matchVars>>

\* Keybox.check_passphrase: Envelope.check_passphrase derives key_check,
\* compares it with the key and drops it
MemCheckPassphrase(p, a) ==
    /\ held # 0
    /\ heap[a].state = "unused"
    /\ heap' = Dealloc(Alloc(heap, a, KeyBytes(DeriveKey(kb.envelope, p)), "no"), a)
    /\ vout' = [op |-> "check_passphrase", err |-> ~EnvCheckPassphrase(kb.envelope, p),
                pp |-> p]
    /\ UNCHANGED <<held, discarded, names, kb, file, written, clock, rng, steps,
                   impVars, callVars>>
    /\ UNCHANGED <<envVars, uiVars, matchVars>>

\* b = <bytes>; m = SecureMemory(b)
MemWrap(data, a) ==
    /\ heap[a].state = "unused"
    /\ heap' = Alloc(heap, a, data, "yes")
    /\ names' = names \cup {a}
    /\ UNCHANGED <<held, discarded, kbVars, envVars, uiVars, matchVars>>

\* del m: SecureMemory.__del__ clears the bytes of the object it wraps
MemDel(a) ==
    /\ heap[a].state = "live"
    /\ heap[a].wrapped = "yes"
    /\ heap' = [heap EXCEPT ![a].data = memory_clear(@), ![a].wrapped = "deleted"]
    /\ UNCHANGED <<held, discarded, names, kbVars, envVars, uiVars, matchVars>>

\* del b, once the wrapper is gone
MemDropName(a) ==
    /\ a \in names
    /\ heap[a].wrapped # "yes"
    /\ heap' = Dealloc(heap, a)
    /\ names' = names \ {a}
    /\ UNCHANGED <<held, discarded, kbVars, envVars, uiVars, matchVars>>

NextMemory ==
    \/ \E p \in Passphrases, r \in Rand, a \in Addrs : MemSetPassphrase(p, r, a)
    \/ \E p \in Passphrases, a \in Addrs : MemCheckPassphrase(p, a)
    \/ \E data \in Plain, a \in Addrs : MemWrap(data, a)
    \/ \E a \in Addrs : MemDel(a)
    \/ \E a \in Addrs : MemDropName(a)

SpecMemory == InitMemory /\ [][NextMemory]_vars

\* C22: the key of an Envelope is held in a SecureMemory wrapper; once an
\* Envelope has been dropped (the old one after Keybox.set_passphrase), the
\* bytes of its key are zeros and nothing refers to them; and once a
\* SecureMemory has been deleted the bytes it wrapped are zeros for whoever
\* still refers to them.
C22_KeysZeroed ==
    /\ held # 0 => heap[held].wrapped = "yes"
    /\ \A a \in discarded : heap[a].state # "live" /\ IsZero(heap[a].data)
    /\ \A a \in names : heap[a].wrapped = "deleted" => IsZero(heap[a].data)

(***************************************************************************)
(* Keybox._match_record over the candidates in any order                   *)
(***************************************************************************)
\* rows that agree with the incoming record in 7, 6, 5, 4, 3 and 2 columns
MatchRows ==
    { Fields(Str1("a"), Str1("a"), Str1("a"), Str1("a")),
      Fields(Str1("b"), Str1("a"), Str1("a"), Str1("a")),
      Fields(Str1("b"), Str1("a"), Str1("a"), <<>>),
      Fields(Str1("a"), Str1("b"), Str1("a"), Str1("a")),
      Fields(Str1("b"), Str1("b"), Str1("a"), Str1("a")),
      Fields(Str1("b"), Str1("b"), Str1("b"), Str1("a")) }

MatchVaults == { VaultOf(adds) : adds \in SeqsUpTo(MatchRows, MaxRows) }

\* what a file gives import_file: a record with every column, one without
\* mtime, one of a file with the columns site and user only
MatchIncoming ==
    { WithMtime(Fields(Str1("a"), Str1("a"), Str1("a"), Str1("a")), Fmt(0)),
      Fields(Str1("a"), Str1("a"), Str1("a"), Str1("a")),
      [c \in {"site", "user"} |-> Str1("a")] }

\* the orders of the indexes 1..n
Orders(n) ==
    { o \in [1..n -> 1..n] : \A i \in 1..n, j \in 1..n : o[i] = o[j] => i = j }

InitMatch ==
    /\ EnvIdle
    /\ UiIdle
    /\ MemIdle
    /\ kb \in MatchVaults
    /\ file = NoStream
    /\ written = NoWritten
    /\ vout = NoVout
    /\ clock = 0
    /\ rng = MaxRows + 1
    /\ steps = 0
    /\ dump = NoDump
    /\ imp = NoImp
    /\ inbox = NoInbox
    /\ call = NoCall
    /\ saved = NoSaved
    /\ tagout = NoTags

\* self._match_record(candidates, new_rec)
MatchRecord(candidates, other) ==
    /\ ~pool.asked
    /\ pool' = [asked |-> TRUE, candidates |-> candidates, other |-> other,
                removed |-> 0, res |-> match_record(kb, candidates, other)]
    /\ UNCHANGED <<kbVars, envVars, uiVars, memVars>>

\* import_file after an exact match: candidates.remove(matched_recs[0]); the
\* next incoming record, equal to the last, is matched against what is left
MatchNext ==
    /\ pool.asked
    /\ pool.res.exact
    /\ pool.removed = 0
    /\ LET rec  == pool.res.matching[1]
           left == Without(pool.candidates, rec)
       IN  pool' = [pool EXCEPT !.candidates = left, !.removed = rec,
                                !.res = match_record(kb, left, pool.other)]
    /\ UNCHANGED <<kbVars, envVars, uiVars, memVars>>

NextMatch ==
    \/ \E o \in Orders(Len(kb.records)), other \in MatchIncoming : MatchRecord(o, other)
    \/ MatchNext

SpecMatch == InitMatch /\ [][NextMatch]_vars

\* the number of columns in which the candidate, read through its proxy,
\* equals the incoming record; a column the incoming record lacks counts as ''
Score(k, rec, other) ==
    Cardinality({c \in ColSet(k.columns) :
        GetItem(k, rec, c).value = IF c \in DOMAIN other THEN other[c] ELSE <<>>})

\* C23: without a candidate equal to the incoming record in all columns,
\* _match_record returns the candidates of the highest score if that score is
\* at least IMPORT_MIN_MATCHED_COLS and none otherwise, in whatever order the
\* candidates come; with such a candidate it returns one candidate of full
\* score as the exact match, and a candidate removed after an exact match is
\* not matched again.
C23_BestMatches ==
    pool.asked =>
        LET S      == Range(pool.candidates)
            C      == Len(kb.columns)
            sc(r)  == Score(kb, r, pool.other)
            best   == {r \in S : \A q \in S : sc(q) <= sc(r)}
        IN  /\ ~pool.res.err
            /\ pool.removed \notin Range(pool.res.matching)
            /\ IF \E r \in S : sc(r) = C
               THEN /\ pool.res.exact
                    /\ Len(pool.res.matching) = 1
                    /\ sc(pool.res.matching[1]) = C
               ELSE /\ ~pool.res.exact
                    /\ Range(pool.res.matching) =
                         {r \in best : sc(r) >= IMPORT_MIN_MATCHED_COLS}

\* the same for incoming records that have a password column
C23_BestMatchesWithPassword ==
    "password" \in DOMAIN pool.other => C23_BestMatches

====
